---- MODULE Spec2Model ----
(***************************************************************************)
(* Majic Mall merchant core: active-store resolution, the store archive /  *)
(* restore / purge lifecycle and the payment-method registry, modelled     *)
(* from src/merchant/views.py and src/merchant/models.py.                  *)
(*                                                                         *)
(* The database tables are functions from primary keys to rows; a row that *)
(* does not exist is outside the function's DOMAIN.  Django runs in        *)
(* autocommit mode (no transaction.atomic / ATOMIC_REQUESTS anywhere in    *)
(* the sources), so every ORM statement is one atomic step and a handler   *)
(* that issues several statements can be interleaved with other requests   *)
(* between them.                                                           *)
(***************************************************************************)
EXTENDS Integers, Sequences, FiniteSets, TLC

VARIABLES
    now,        \* wall clock (timezone.now()), in ticks of 1/Resolution second
    stores,     \* merchant_merchantstore : pk -> row
    products,   \* core_product           : pk -> row
    orders,     \* merchant_order         : pk -> row
    items,      \* merchant_orderitem     : pk -> row
    methods,    \* merchant_merchantpaymentmethod : pk -> row
    pk,         \* the last primary key each table's sequence has issued
    session,    \* request.session["active_store_id"] per user, 0 = key absent
    reqs,       \* requests in flight: worker slot -> the handler's local state
    batch,      \* bookkeeping on the payment-method writes since the last quiet point
    last,       \* the response (and inputs) of the request that finished last
    users,      \* auth_user     : username -> row
    merchants   \* core_merchant : pk -> row

db   == <<stores, products, orders, items, methods>>
vars == <<now, stores, products, orders, items, methods, pk, session, reqs, batch, last,
         users, merchants>>

(***************************************************************************)
(* Bounds of the model.                                                    *)
(***************************************************************************)
MaxStoreId == 3          \* store primary keys are 1..MaxStoreId
MaxMethodId == 3         \* payment-method primary keys are 1..MaxMethodId
MaxInFlight == 2         \* concurrently running requests
MaxProductId == 3        \* product primary keys are 1..MaxProductId
MaxItemId == 2           \* order-item primary keys are 1..MaxItemId
MaxTicks == 3            \* clock advances per behaviour
Resolution == 2          \* clock ticks per second (sub-second time exists)

Users    == {"u1", "u2"}
Anon     == "anonymous"  \* request.user of a request that is not logged in
StoreIds == 1..MaxStoreId

(***************************************************************************)
(* Program constants.                                                      *)
(***************************************************************************)
NULL    == -1            \* archived_at IS NULL
NoStore == 0             \* get_current_store() returned None
PurgeWindowSeconds == 604800
SecondsPerDay      == 86400
SecondsPerHour     == 3600

PLAN_PRICES == [starter |-> 900, pro |-> 2900, elite |-> 7900]
Plans == DOMAIN PLAN_PRICES

(***************************************************************************)
(* Query strings.  A query parameter is a string, modelled as a sequence   *)
(* of characters; <<>> is the absent (or empty) parameter.                 *)
(***************************************************************************)
Digits   == {"0", "1", "2", "3", "4", "5", "6", "7", "8", "9"}
Alphabet == {"0", "1", "2", "3", "x", "-"}
Overrides == {<<>>} \cup {<<a>> : a \in Alphabet}
                    \cup {<<a, b>> : a \in Alphabet, b \in Alphabet}

DigitVal(c) == CASE c = "0" -> 0 [] c = "1" -> 1 [] c = "2" -> 2 [] c = "3" -> 3
                 [] c = "4" -> 4 [] c = "5" -> 5 [] c = "6" -> 6 [] c = "7" -> 7
                 [] c = "8" -> 8 [] c = "9" -> 9

RECURSIVE DecVal(_)
DecVal(s) == IF s = <<>> THEN 0
             ELSE 10 * DecVal(SubSeq(s, 1, Len(s) - 1)) + DigitVal(s[Len(s)])

AllDigits(s) == s # <<>> /\ \A i \in 1..Len(s) : s[i] \in Digits

\* int(text): [ok |-> FALSE] stands for ValueError.
ParseInt(s) ==
    IF AllDigits(s) THEN [ok |-> TRUE, val |-> DecVal(s)]
    ELSE IF Len(s) >= 2 /\ s[1] = "-" /\ AllDigits(Tail(s))
         THEN [ok |-> TRUE, val |-> 0 - DecVal(Tail(s))]
         ELSE [ok |-> FALSE, val |-> 0]

(***************************************************************************)
(* Store.objects.filter(owner=user, is_archived=False).order_by(created_at)*)
(***************************************************************************)
\* (mutant) the is_archived=False filter is forgotten
OwnedActive_AnyState(S, u) == {s \in DOMAIN S : S[s].owner = u}

OwnedActive(S, u) == {s \in DOMAIN S : S[s].owner = u /\ ~S[s].is_archived}

\* qs.first(): a row with the least created_at (rows created at the same
\* instant come in an order the database chooses).
FirstCreated(S, u) ==
    {s \in OwnedActive(S, u) :
        \A t \in OwnedActive(S, u) : S[s].created_at <= S[t].created_at}

(***************************************************************************)
(* get_current_store(request): the outcomes as records                     *)
(*   [store |-> pk or NoStore, sid |-> the session entry afterwards].      *)
(* The result is a set because of qs.first() above.                        *)
(***************************************************************************)
Fallback(S, u, sid) ==
    IF OwnedActive(S, u) = {}
    THEN {[store |-> NoStore, sid |-> sid]}
    ELSE {[store |-> s, sid |-> s] : s \in FirstCreated(S, u)}

\* (mutant) a stale session entry is left in place
FromSession_NoPop(S, u, sid) ==
    IF sid # 0 /\ sid \in OwnedActive(S, u)
    THEN {[store |-> sid, sid |-> sid]}
    ELSE Fallback(S, u, sid)

FromSession(S, u, sid) ==
    IF sid # 0
    THEN IF sid \in OwnedActive(S, u)
         THEN {[store |-> sid, sid |-> sid]}
         ELSE Fallback(S, u, 0)              \* session.pop("active_store_id")
    ELSE Fallback(S, u, sid)

\* (mutant) the session entry is consulted before the ?store override
GetCurrentStore_SessionFirst(S, u, ov, sid) ==
    IF u = Anon
    THEN {[store |-> NoStore, sid |-> sid]}
    ELSE IF sid # 0 /\ sid \in OwnedActive(S, u)
         THEN {[store |-> sid, sid |-> sid]}
         ELSE IF ov # <<>> /\ ParseInt(ov).ok /\ ParseInt(ov).val \in OwnedActive(S, u)
              THEN {[store |-> ParseInt(ov).val, sid |-> ParseInt(ov).val]}
              ELSE Fallback(S, u, 0)

GetCurrentStore(S, u, ov, sid) ==
    IF u = Anon
    THEN {[store |-> NoStore, sid |-> sid]}
    ELSE IF ov # <<>> /\ ParseInt(ov).ok /\ ParseInt(ov).val \in OwnedActive(S, u)
         THEN {[store |-> ParseInt(ov).val, sid |-> ParseInt(ov).val]}
         ELSE FromSession(S, u, sid)

(***************************************************************************)
(* Rows and responses.                                                     *)
(***************************************************************************)
StoreRow(u, arch, at, created, plan) ==
    [owner |-> u, is_archived |-> arch, archived_at |-> at,
     created_at |-> created, plan |-> plan]

\* auth_user and core_merchant rows; every user signed up before the first
\* state and has the merchant profile the signup gave them.
UserRow(email) == [email |-> email]
MerchantRow(u, slug) == [user |-> u, slug |-> slug, plan |-> "starter"]
SignedUp == [u \in Users |-> UserRow("")]
Profiles == <<MerchantRow("u1", "merchant-u1"), MerchantRow("u2", "merchant-u2")>>

\* What a finished request leaves behind: the handler, who asked, the ?store
\* override, the id in the URL (0 if none), the session entry before the
\* request, the store it resolved and how it ended.
Resp(op, u, ov, arg, pre, store, outcome) ==
    [op |-> op, user |-> u, ov |-> ov, arg |-> arg, pre |-> pre,
     store |-> store, outcome |-> outcome, days |-> 0, hours |-> 0]

NoResp == Resp("none", Anon, <<>>, 0, 0, NoStore, "none")

\* updated_at is auto_now: the time of the last save() of the row, 0 for
\* the rows that exist from the start.
MethodRow(s, provider, active, default) ==
    [store |-> s, provider |-> provider, is_active |-> active, is_default |-> default,
     updated_at |-> 0]

\* The POST data of MerchantPaymentMethodForm (display_name, mode and
\* credentials play no part in any decision of the handlers).
NoForm == [provider |-> "", is_active |-> FALSE, is_default |-> FALSE]

\* A request in flight: the handler, where it stands, and its local variables
\* (the resolved store, the id from the URL or of the row it saved, the form).
Req(op, pc, u, s, arg, f) ==
    [op |-> op, pc |-> pc, user |-> u, store |-> s, arg |-> arg, form |-> f]

Idle    == Req("idle", "idle", Anon, 0, 0, NoForm)
Workers == 1..MaxInFlight
AllIdle == \A w \in Workers : reqs[w] = Idle

\* batch.set: the stores that received a write with is_default = true since
\* the last moment at which no request was in flight; batch.other: the stores
\* that received a write with is_default = false in that time.
NoBatch == [set |-> {}, other |-> {}]
NoPk    == [store |-> 0, product |-> 0, order |-> 0, item |-> 0, method |-> 0]

SessionOf(u) == IF u \in Users THEN session[u] ELSE 0
SetSession(u, sid) == IF u \in Users THEN [session EXCEPT ![u] = sid] ELSE session

(***************************************************************************)
(* SpecResolve: get_current_store as a function of its inputs.  The        *)
(* initial states range over the store tables, session entries and         *)
(* requests it can be handed; the resolver itself never relies on how many *)
(* stores an owner has.  Every behaviour is one call: the state a call     *)
(* leaves (same stores, a session entry in 0..MaxStoreId) is itself one of *)
(* the initial states, so longer runs add no input.                        *)
(***************************************************************************)
ResolveRows ==
    {StoreRow(u, arch, IF arch THEN 1 ELSE NULL, c, "starter") :
        u \in Users, arch \in BOOLEAN, c \in {0, 1}}

InitResolve ==
    /\ now = 1
    /\ users = SignedUp
    /\ merchants = Profiles
    /\ \E D \in SUBSET StoreIds : stores \in [D -> ResolveRows]
    /\ products = <<>> /\ orders = <<>> /\ items = <<>> /\ methods = <<>>
    /\ pk = [NoPk EXCEPT !.store = MaxStoreId]
    /\ \E k \in 0..MaxStoreId : session = [u \in Users |-> IF u = "u1" THEN k ELSE 0]
    /\ reqs = [w \in Workers |-> Idle]
    /\ batch = NoBatch
    /\ last = NoResp

CallGetCurrentStore(u, ov) ==
    /\ last = NoResp
    /\ \E r \in GetCurrentStore(stores, u, ov, SessionOf(u)) :
          /\ session' = SetSession(u, r.sid)
          /\ last' = Resp("get_current_store", u, ov, 0, SessionOf(u), r.store, "returned")
    /\ UNCHANGED <<now, stores, products, orders, items, methods, pk, reqs, batch, users, merchants>>

NextResolve == \E u \in {"u1", Anon}, ov \in Overrides : CallGetCurrentStore(u, ov)

SpecResolve == InitResolve /\ [][NextResolve]_vars

\* A store the user may act on: it exists, is theirs and is not archived.
Usable(u, s) == s \in DOMAIN stores /\ stores[s].owner = u /\ ~stores[s].is_archived

Resolved == last.op = "get_current_store"

\* C7: get_current_store returns none or a non-archived store owned by the
\* requesting user, whatever the override, the session and the store table.
C7_ResolvedIsOwnedActive ==
    Resolved => (last.store = NoStore \/ Usable(last.user, last.store))

\* A foreign store and an archived own store were both named (by the override
\* and by the session), and the user's remaining store was returned.
C7_Witness ==
    /\ Resolved /\ last.user = "u1" /\ last.store # NoStore
    /\ ParseInt(last.ov).ok /\ ParseInt(last.ov).val \in DOMAIN stores
    /\ stores[ParseInt(last.ov).val].owner = "u2"
    /\ last.pre \in DOMAIN stores /\ stores[last.pre].owner = "u1"
    /\ stores[last.pre].is_archived

\* C8: resolution order, first match wins: the override when it names a usable
\* store, else the session entry when it names one, else the user's
\* earliest-created usable store (none when there is no such store); a
\* non-numeric, archived, missing or foreign override is skipped.
C8_ResolutionOrder ==
    (Resolved /\ last.user \in Users) =>
        LET u  == last.user
            n  == ParseInt(last.ov)
            ok == {s \in StoreIds : Usable(u, s)}
        IN  IF last.ov # <<>> /\ n.ok /\ n.val \in ok THEN last.store = n.val
            ELSE IF last.pre \in ok THEN last.store = last.pre
            ELSE IF ok # {}
                 THEN /\ last.store \in ok
                      /\ \A t \in ok : stores[last.store].created_at <= stores[t].created_at
                 ELSE last.store = NoStore

\* The override named an archived store, the session named a usable store that
\* is not the earliest-created one, and the session's store was returned.
C8_Witness ==
    /\ Resolved /\ last.user = "u1"
    /\ ParseInt(last.ov).ok /\ ParseInt(last.ov).val \in DOMAIN stores
    /\ stores[ParseInt(last.ov).val].is_archived
    /\ Usable("u1", last.pre) /\ last.store = last.pre
    /\ \E t \in StoreIds : Usable("u1", t) /\ stores[t].created_at < stores[last.pre].created_at

\* C9: after a call by an authenticated user the session entry is the id of
\* the returned store, and is absent when none was returned.
C9_SessionFollowsResult ==
    (Resolved /\ last.user \in Users) =>
        IF last.store # NoStore THEN session[last.user] = last.store
                                ELSE session[last.user] = 0

\* The session named a store that is archived (or gone, or foreign), nothing
\* resolved, and the entry has been removed.
C9_Witness ==
    /\ Resolved /\ last.user = "u1" /\ last.store = NoStore
    /\ last.pre # 0 /\ ~Usable("u1", last.pre)
    /\ session["u1"] = 0

(***************************************************************************)
(* Shared pieces of the request handlers.                                  *)
(***************************************************************************)
MethodIds == 1..MaxMethodId
Providers == {"stripe", "paypal", "card"}
Https     == {"GET", "POST"}

\* INSERT, or an UPDATE that replaces the whole row.
Put(T, k, row) == [x \in DOMAIN T \cup {k} |-> IF x = k THEN row ELSE T[x]]
\* DELETE ... WHERE pk IN K
Drop(T, K) == [x \in DOMAIN T \ K |-> T[x]]

\* (mutant) the lookup is by primary key alone
GetObject_AnyStore(T, k, s) == k \in DOMAIN T

\* get_object_or_404(Model, pk=k, store=s) finds a row (otherwise Http404)
GetObject(T, k, s) == k \in DOMAIN T /\ T[k].store = s

Finish(w, resp) ==
    /\ reqs' = [reqs EXCEPT ![w] = Idle]
    /\ last' = resp

Continue(w, r) ==
    /\ reqs' = [reqs EXCEPT ![w] = r]
    /\ last' = last

\* @login_required sends a request that is not logged in to the login page.
LoginRequired ==
    /\ last' = Resp("login_required", Anon, <<>>, 0, 0, NoStore, "login")
    /\ UNCHANGED <<now, stores, products, orders, items, methods, pk, session, reqs, batch, users, merchants>>

(***************************************************************************)
(* Payment-method registry: payment_method_create, payment_method_edit and *)
(* MerchantPaymentMethod.save.  save() issues two statements, the row      *)
(* write (super().save()) and then, when is_default is set, the UPDATE     *)
(* that clears the flag on the store's other methods.                      *)
(***************************************************************************)
\* The methods of store s flagged default.
Defaults(s) == {m \in DOMAIN methods : methods[m].store = s /\ methods[m].is_default}

\* A payment-method write begins: bookkeeping restarts when nothing else runs.
BatchAtBegin == IF AllIdle THEN NoBatch ELSE batch

BatchNote(s, default) ==
    IF default THEN [batch EXCEPT !.set = @ \cup {s}]
               ELSE [batch EXCEPT !.other = @ \cup {s}]

\* payment_method_create up to pm.save(): resolve the store, bind the form.
PaymentMethodCreate(w, u, ov, http, f) ==
    /\ reqs[w] = Idle
    /\ \E r \in GetCurrentStore(stores, u, ov, SessionOf(u)) :
          /\ session' = SetSession(u, r.sid)
          /\ IF r.store = NoStore
             THEN /\ Finish(w, Resp("payment_method_create", u, ov, 0, 0,
                                    NoStore, "error_message"))
                  /\ batch' = batch
             ELSE IF http = "GET" \/ f.provider \notin Providers
                  THEN /\ Finish(w, Resp("payment_method_create", u, ov, 0, 0,
                                         r.store, "form"))
                       /\ batch' = batch
                  ELSE /\ Continue(w, Req("payment_method_create", "save", u, r.store, 0, f))
                       /\ batch' = BatchAtBegin
    /\ UNCHANGED <<now, stores, products, orders, items, methods, pk, users, merchants>>

\* payment_method_edit up to form.save(): resolve the store, load the method
\* with pk=method_id, store=store, bind the form to it.
PaymentMethodEdit(w, u, ov, m, http, f) ==
    /\ reqs[w] = Idle
    /\ \E r \in GetCurrentStore(stores, u, ov, SessionOf(u)) :
          /\ session' = SetSession(u, r.sid)
          /\ IF r.store = NoStore
             THEN /\ Finish(w, Resp("payment_method_edit", u, ov, m, 0,
                                    NoStore, "error_message"))
                  /\ batch' = batch
             ELSE IF ~GetObject(methods, m, r.store)
                  THEN /\ Finish(w, Resp("payment_method_edit", u, ov, m, 0,
                                         r.store, "not_found"))
                       /\ batch' = batch
                  ELSE IF http = "GET" \/ f.provider \notin Providers
                       THEN /\ Finish(w, Resp("payment_method_edit", u, ov, m, 0,
                                              r.store, "form"))
                            /\ batch' = batch
                       ELSE /\ Continue(w, Req("payment_method_edit", "save", u, r.store, m, f))
                            /\ batch' = BatchAtBegin
    /\ UNCHANGED <<now, stores, products, orders, items, methods, pk, users, merchants>>

\* The key the row is written under: the instance's pk, or a fresh one.
SaveKey(r) == IF r.arg = 0 THEN pk.method + 1 ELSE r.arg

SaveRowValue(r) ==
    [MethodRow(r.store, r.form.provider, r.form.is_active, r.form.is_default)
        EXCEPT !.updated_at = now]

\* MerchantPaymentMethod.save, first statement: super().save().  An instance
\* without pk is INSERTed; one with a pk is UPDATEd and, if no row has that
\* pk any more, INSERTed.  The store must still exist (foreign key).
PaymentMethodSaveRow(w) ==
    LET r == reqs[w]
        k == SaveKey(r)
    IN  /\ r.pc = "save"
        /\ r.op \in {"payment_method_create", "payment_method_edit"}
        /\ k <= MaxMethodId
        /\ IF r.store \notin DOMAIN stores
           THEN /\ Finish(w, Resp(r.op, r.user, <<>>, r.arg, 0, r.store, "server_error"))
                /\ UNCHANGED <<methods, pk, batch, users, merchants>>
           ELSE /\ methods' = Put(methods, k, SaveRowValue(r))
                /\ pk' = [pk EXCEPT !.method = IF r.arg = 0 THEN k ELSE @]
                /\ batch' = BatchNote(r.store, r.form.is_default)
                /\ IF r.form.is_default
                   THEN Continue(w, [r EXCEPT !.pc = "clear", !.arg = k])
                   ELSE Finish(w, Resp(r.op, r.user, <<>>, k, 0, r.store, "saved"))
        /\ UNCHANGED <<now, stores, products, orders, items, session, users, merchants>>

\* filter(store=self.store).exclude(pk=self.pk).update(is_default=False)
ClearSiblings(T, s, k) ==
    [m \in DOMAIN T |->
        IF T[m].store = s /\ m # k THEN [T[m] EXCEPT !.is_default = FALSE] ELSE T[m]]

\* MerchantPaymentMethod.save, second statement.
PaymentMethodClearSiblings(w) ==
    LET r == reqs[w]
    IN  /\ r.pc = "clear"
        /\ methods' = ClearSiblings(methods, r.store, r.arg)
        /\ Finish(w, Resp(r.op, r.user, <<>>, r.arg, 0, r.store, "saved"))
        /\ UNCHANGED <<now, stores, products, orders, items, pk, session, batch, users, merchants>>

(***************************************************************************)
(* SpecPM: concurrent payment-method writes.  Each user has the store the  *)
(* signup signal gave them; store 1 already has a default method (pk 1),   *)
(* and its owner sends the requests.                                       *)
(***************************************************************************)
UsersPM == {"u1"}
FormsPM == {[provider |-> "stripe", is_active |-> TRUE, is_default |-> d] : d \in BOOLEAN}

InitPM ==
    /\ now = 1
    /\ users = SignedUp
    /\ merchants = Profiles
    /\ stores = [s \in {1, 2} |->
                    StoreRow(IF s = 1 THEN "u1" ELSE "u2", FALSE, NULL, 0, "starter")]
    /\ products = <<>> /\ orders = <<>> /\ items = <<>>
    /\ methods = [m \in {1} |-> MethodRow(1, "stripe", TRUE, TRUE)]
    /\ pk = [NoPk EXCEPT !.store = 2, !.method = 1]
    /\ session = [u \in Users |-> 0]
    /\ reqs = [w \in Workers |-> Idle]
    /\ batch = NoBatch
    /\ last = NoResp

NextPM ==
    \/ \E w \in Workers, u \in UsersPM, http \in Https, f \in FormsPM :
          PaymentMethodCreate(w, u, <<>>, http, f)
    \/ \E w \in Workers, u \in UsersPM, m \in MethodIds, http \in Https, f \in FormsPM :
          PaymentMethodEdit(w, u, <<>>, m, http, f)
    \/ \E w \in Workers : PaymentMethodSaveRow(w)
    \/ \E w \in Workers : PaymentMethodClearSiblings(w)

SpecPM == InitPM /\ [][NextPM]_vars

\* C1: at most one payment method of a store is flagged default, in every
\* state that concurrent create/update requests can reach.
C1_AtMostOneDefault ==
    \A s \in StoreIds : Cardinality(Defaults(s)) <= 1

\* C2: once no payment-method write is in flight, a store that received a
\* write with is_default = true (and none with is_default = false) since the
\* last quiet moment has exactly one default method; and a write that ran
\* alone and set is_default = true leaves the written method the default.
C2_ExactlyOneDefaultAfterWrites ==
    AllIdle =>
        /\ \A s \in batch.set \ batch.other : Cardinality(Defaults(s)) = 1
        /\ (last.outcome = "saved" /\ batch.set = {last.store} /\ batch.other = {}
            /\ last.arg \in DOMAIN methods /\ Cardinality(Defaults(last.store)) = 1)
              => Defaults(last.store) = {last.arg}

(***************************************************************************)
(* Store lifecycle: archive, restore, purge.                               *)
(***************************************************************************)
Staff == "staff"

ProductRow(s, name, price) == [store |-> s, name |-> name, price |-> price]
OrderRow(s, created, total) == [store |-> s, created_at |-> created, total |-> total]
ItemRow(o, p, name, qty, price) ==
    [order |-> o, product |-> p, name |-> name, quantity |-> qty, unit_price |-> price]

ProductsOf(s) == {p \in DOMAIN products : products[p].store = s}
OrdersOf(s)   == {o \in DOMAIN orders : orders[o].store = s}
ItemsOf(s)    == {i \in DOMAIN items : items[i].order \in OrdersOf(s)}
MethodsOf(s)  == {m \in DOMAIN methods : methods[m].store = s}

\* (mutant) no order item protects a product
ProtectedBy_None(P) == {}

\* OrderItem.product is on_delete=PROTECT: the items that block the deletion
\* of the products P.  The collector raises ProtectedError for them whether
\* or not the same items are also reached through a CASCADE.
ProtectedBy(P) == {i \in DOMAIN items : items[i].product \in P}

\* The clock.  It advances by half a second or by seven days less half a
\* second, MaxTicks times at most (a time is a unique sum of such steps).
Window     == PurgeWindowSeconds * Resolution
TickSteps  == {1, Window - 1}
TicksTaken == (now \div (Window - 1)) + (now % (Window - 1))

Tick(d) ==
    /\ TicksTaken < MaxTicks
    /\ now' = now + d
    /\ UNCHANGED <<stores, products, orders, items, methods, pk, session, reqs, batch, last, users, merchants>>

\* int(delta.total_seconds()) of a timedelta of d ticks (int() truncates
\* towards zero)
TotalSeconds(d) == IF d >= 0 THEN d \div Resolution ELSE 0 - ((0 - d) \div Resolution)

\* (mutant) the window is taken to be six days
TooSoon_SixDays(d) == d < (PurgeWindowSeconds - SecondsPerDay) * Resolution

\* delta.total_seconds() < 604800
TooSoon(d) == d < Window

\* remaining = 604800 - int(delta.total_seconds())
Remaining(d) == PurgeWindowSeconds - TotalSeconds(d)

\* MerchantStore.can_restore(): archived, and now <= archived_at + 7 days
CanRestore(row, t) ==
    row.is_archived /\ row.archived_at # NULL /\ t <= row.archived_at + Window

\* MerchantStore.restore_deadline()
RestoreDeadline(row) == IF row.archived_at # NULL THEN row.archived_at + Window ELSE NULL

\* (mutant) a restore is refused once can_restore() is false
RestoreGuard_WithinWindow(row, t) == CanRestore(row, t)

\* (mutant) a restore request is carried out whatever the state of the store
RestoreGuard_Always(row, t) == TRUE

\* "if store.is_archived:" of the restore handlers
RestoreGuard(row, t) == row.is_archived

\* (mutant) restore forgets to reset archived_at
RestoredRow_KeepsTime(row) == [row EXCEPT !.is_archived = FALSE]

RestoredRow(row) == [row EXCEPT !.is_archived = FALSE, !.archived_at = NULL]

ArchivedRow(row, t) == [row EXCEPT !.is_archived = TRUE, !.archived_at = t]

\* MerchantStore.archive(), called on a freshly loaded instance.
StoreArchive(s) ==
    /\ AllIdle
    /\ s \in DOMAIN stores
    /\ stores' = [stores EXCEPT ![s] = ArchivedRow(@, now)]
    /\ last' = Resp("MerchantStore.archive", Staff, <<>>, s, 0, s, "archived")
    /\ UNCHANGED <<now, products, orders, items, methods, pk, session, reqs, batch, users, merchants>>

\* MerchantStore.restore(), called on a freshly loaded instance.
StoreRestore(s) ==
    /\ AllIdle
    /\ s \in DOMAIN stores
    /\ stores' = [stores EXCEPT ![s] = RestoredRow(@)]
    /\ last' = Resp("MerchantStore.restore", Staff, <<>>, s, 0, s, "restored")
    /\ UNCHANGED <<now, products, orders, items, methods, pk, session, reqs, batch, users, merchants>>

\* admin_store_archive up to store.save(): load the store, look at the copy.
AdminStoreArchive(w, s) ==
    /\ reqs[w] = Idle
    /\ IF s \notin DOMAIN stores
       THEN Finish(w, Resp("admin_store_archive", Staff, <<>>, s, 0, NoStore, "not_found"))
       ELSE IF stores[s].is_archived
            THEN Finish(w, Resp("admin_store_archive", Staff, <<>>, s, 0, s, "info"))
            ELSE Continue(w, Req("admin_store_archive", "archive", Staff, s, s, NoForm))
    /\ UNCHANGED <<now, stores, products, orders, items, methods, pk, session, batch, users, merchants>>

\* admin_store_restore up to store.save().
AdminStoreRestore(w, s) ==
    /\ reqs[w] = Idle
    /\ IF s \notin DOMAIN stores
       THEN Finish(w, Resp("admin_store_restore", Staff, <<>>, s, 0, NoStore, "not_found"))
       ELSE IF RestoreGuard(stores[s], now)
            THEN Continue(w, Req("admin_store_restore", "restore", Staff, s, s, NoForm))
            ELSE Finish(w, Resp("admin_store_restore", Staff, <<>>, s, 0, s, "info"))
    /\ UNCHANGED <<now, stores, products, orders, items, methods, pk, session, batch, users, merchants>>

\* merchant_store_archive up to store.save().
MerchantStoreArchive(w, u, ov) ==
    /\ reqs[w] = Idle
    /\ \E r \in GetCurrentStore(stores, u, ov, SessionOf(u)) :
          /\ session' = SetSession(u, r.sid)
          /\ IF r.store = NoStore
             THEN Finish(w, Resp("merchant_store_archive", u, ov, 0, 0, NoStore, "error_message"))
             ELSE IF stores[r.store].is_archived
                  THEN Finish(w, Resp("merchant_store_archive", u, ov, 0, 0, r.store, "info"))
                  ELSE Continue(w, Req("merchant_store_archive", "archive", u, r.store, 0, NoForm))
    /\ UNCHANGED <<now, stores, products, orders, items, methods, pk, batch, users, merchants>>

\* merchant_store_restore up to store.save().
MerchantStoreRestore(w, u, ov) ==
    /\ reqs[w] = Idle
    /\ \E r \in GetCurrentStore(stores, u, ov, SessionOf(u)) :
          /\ session' = SetSession(u, r.sid)
          /\ IF r.store = NoStore
             THEN Finish(w, Resp("merchant_store_restore", u, ov, 0, 0, NoStore, "error_message"))
             ELSE IF ~RestoreGuard(stores[r.store], now)
                  THEN Finish(w, Resp("merchant_store_restore", u, ov, 0, 0, r.store, "info"))
                  ELSE Continue(w, Req("merchant_store_restore", "restore", u, r.store, 0, NoForm))
    /\ UNCHANGED <<now, stores, products, orders, items, methods, pk, batch, users, merchants>>

\* store.save(update_fields=["is_archived", "archived_at"]) of the archive
\* handlers: one UPDATE of both columns; it raises DatabaseError when the row
\* is gone.
StoreSaveArchived(w) ==
    LET r == reqs[w]
    IN  /\ r.pc = "archive"
        /\ IF r.store \in DOMAIN stores
           THEN /\ stores' = [stores EXCEPT ![r.store] = ArchivedRow(@, now)]
                /\ Finish(w, Resp(r.op, r.user, <<>>, r.arg, 0, r.store, "archived"))
           ELSE /\ stores' = stores
                /\ Finish(w, Resp(r.op, r.user, <<>>, r.arg, 0, r.store, "server_error"))
        /\ UNCHANGED <<now, products, orders, items, methods, pk, session, batch, users, merchants>>

\* store.save(update_fields=["is_archived", "archived_at"]) of the restore
\* handlers.
StoreSaveRestored(w) ==
    LET r == reqs[w]
    IN  /\ r.pc = "restore"
        /\ IF r.store \in DOMAIN stores
           THEN /\ stores' = [stores EXCEPT ![r.store] = RestoredRow(@)]
                /\ Finish(w, Resp(r.op, r.user, <<>>, r.arg, 0, r.store, "restored"))
           ELSE /\ stores' = stores
                /\ Finish(w, Resp(r.op, r.user, <<>>, r.arg, 0, r.store, "server_error"))
        /\ UNCHANGED <<now, products, orders, items, methods, pk, session, batch, users, merchants>>

\* admin_store_purge up to store.delete(): load the store, check the copy.
AdminStorePurge(w, s) ==
    /\ reqs[w] = Idle
    /\ IF s \notin DOMAIN stores
       THEN Finish(w, Resp("admin_store_purge", Staff, <<>>, s, 0, NoStore, "not_found"))
       ELSE IF ~stores[s].is_archived \/ stores[s].archived_at = NULL
            THEN Finish(w, Resp("admin_store_purge", Staff, <<>>, s, 0, s, "error_message"))
            ELSE LET delta == now - stores[s].archived_at
                 IN  IF TooSoon(delta)
                     THEN Finish(w, [Resp("admin_store_purge", Staff, <<>>, s, 0, s, "too_soon")
                                       EXCEPT !.days  = Remaining(delta) \div SecondsPerDay,
                                              !.hours = (Remaining(delta) % SecondsPerDay)
                                                           \div SecondsPerHour])
                     ELSE Continue(w, Req("admin_store_purge", "delete", Staff, s, s, NoForm))
    /\ UNCHANGED <<now, stores, products, orders, items, methods, pk, session, batch, users, merchants>>

\* store.delete(): the collector gathers the store's products, orders, order
\* items and payment methods (CASCADE), raises ProtectedError when an order
\* item references one of the products, and otherwise deletes them all.
StoreDelete(w) ==
    LET r == reqs[w]
        s == r.store
    IN  /\ r.pc = "delete"
        /\ IF ProtectedBy(ProductsOf(s)) # {}
           THEN /\ UNCHANGED <<stores, products, orders, items, methods, users, merchants>>
                /\ Finish(w, Resp(r.op, r.user, <<>>, r.arg, 0, s, "server_error"))
           ELSE /\ stores'   = Drop(stores, {s})
                /\ items'    = Drop(items, ItemsOf(s))
                /\ orders'   = Drop(orders, OrdersOf(s))
                /\ products' = Drop(products, ProductsOf(s))
                /\ methods'  = Drop(methods, MethodsOf(s))
                /\ Finish(w, Resp(r.op, r.user, <<>>, r.arg, 0, s, "purged"))
        /\ UNCHANGED <<now, pk, session, batch, users, merchants>>

(***************************************************************************)
(* SpecLife: the lifecycle under concurrent requests and passing time.     *)
(* Both users have their signup store with a product and a payment method; *)
(* store 1 has an order, with or without an order item for its product.    *)
(***************************************************************************)
InitLife ==
    /\ now = 0
    /\ users = SignedUp
    /\ merchants = Profiles
    /\ stores = [s \in {1, 2} |->
                    StoreRow(IF s = 1 THEN "u1" ELSE "u2", FALSE, NULL, 0, "starter")]
    /\ products = [p \in {1, 2} |-> ProductRow(p, "tee", 2500)]
    /\ orders = [o \in {1} |-> OrderRow(1, 0, 2500)]
    /\ \E n \in {0, 1} : items = [i \in 1..n |-> ItemRow(1, 1, "tee", 1, 2500)]
    /\ methods = [m \in {1, 2} |-> MethodRow(m, "stripe", TRUE, TRUE)]
    /\ pk = [store |-> 2, product |-> 2, order |-> 1, item |-> Cardinality(DOMAIN items),
             method |-> 2]
    /\ session = [u \in Users |-> 0]
    /\ reqs = [w \in Workers |-> Idle]
    /\ batch = NoBatch
    /\ last = NoResp

\* Staff requests name store 1 or a primary key that has no row.
TargetsLife == {1, MaxStoreId}
UsersLife   == {"u1"}

NextLife ==
    \/ \E d \in TickSteps : Tick(d)
    \/ \E s \in TargetsLife : StoreArchive(s)
    \/ \E s \in TargetsLife : StoreRestore(s)
    \/ \E w \in Workers, s \in TargetsLife : AdminStoreArchive(w, s)
    \/ \E w \in Workers, s \in TargetsLife : AdminStoreRestore(w, s)
    \/ \E w \in Workers, s \in TargetsLife : AdminStorePurge(w, s)
    \/ \E w \in Workers, u \in UsersLife : MerchantStoreArchive(w, u, <<>>)
    \/ \E w \in Workers, u \in UsersLife : MerchantStoreRestore(w, u, <<>>)
    \/ \E w \in Workers : StoreSaveArchived(w)
    \/ \E w \in Workers : StoreSaveRestored(w)
    \/ \E w \in Workers : StoreDelete(w)

SpecLife == InitLife /\ [][NextLife]_vars

\* C3: every existing store has is_archived = true exactly when archived_at
\* is non-null, after any interleaving of archive, restore and purge requests.
C3_ArchivedIffTimestamp ==
    \A s \in DOMAIN stores : stores[s].is_archived <=> (stores[s].archived_at # NULL)

\* Store 1 was archived after time had passed and a staff restore has just
\* brought it back.
C3_Witness ==
    /\ last.op = "admin_store_restore" /\ last.outcome = "restored" /\ last.arg = 1
    /\ now > 0
    /\ 1 \in DOMAIN stores /\ ~stores[1].is_archived /\ stores[1].archived_at = NULL

\* A purge request on store s passes its checks and goes on to store.delete().
PurgeProceeds(s) ==
    \E w \in Workers : /\ reqs[w] = Idle
                       /\ reqs'[w].op = "admin_store_purge" /\ reqs'[w].store = s

\* A purge request on store s is answered without reaching store.delete().
PurgeAnswered(s) ==
    /\ reqs' = reqs /\ last' # last
    /\ last'.op = "admin_store_purge" /\ last'.arg = s

\* C4: a purge request on an archived store made less than 7 days (604800 s)
\* after archived_at never goes on to delete: it is answered "too soon" with
\* every table unchanged and a remaining time of days >= 0 and hours >= 0.
C4_EarlyPurgeDeletesNothing ==
    [][\A s \in StoreIds :
          (/\ s \in DOMAIN stores
           /\ stores[s].is_archived /\ stores[s].archived_at # NULL
           /\ now - stores[s].archived_at < PurgeWindowSeconds * Resolution)
          => /\ ~PurgeProceeds(s)
             /\ PurgeAnswered(s) =>
                   /\ last'.outcome = "too_soon"
                   /\ db' = db
                   /\ last'.days >= 0 /\ last'.hours >= 0]_vars

\* Store 1, with an order item on its product, was archived and half a second
\* before the 7 days are over a purge was refused, reporting 0d 0h.
C4_Witness ==
    /\ last.op = "admin_store_purge" /\ last.outcome = "too_soon" /\ last.arg = 1
    /\ last.days = 0 /\ last.hours = 0
    /\ 1 \in DOMAIN stores /\ stores[1].is_archived
    /\ now - stores[1].archived_at = PurgeWindowSeconds * Resolution - 1
    /\ ItemsOf(1) # {} /\ ProductsOf(1) # {} /\ MethodsOf(1) # {}

\* C5: a purge request that found the store archived for at least 7 days
\* leaves no store row and no product, order, order item or payment method of
\* that store, also when order items reference the store's products.
C5_PurgeRemovesEverything ==
    (last.op = "admin_store_purge" /\ last.outcome \in {"purged", "server_error"}) =>
        /\ last.arg \notin DOMAIN stores
        /\ ProductsOf(last.arg) = {} /\ OrdersOf(last.arg) = {}
        /\ MethodsOf(last.arg) = {}
        /\ \A i \in DOMAIN items : /\ items[i].order \in DOMAIN orders
                                   /\ items[i].product \in DOMAIN products

\* C6: whenever a store row is deleted, the row is at that moment archived
\* with an archived_at at least 7 days in the past; an active store, or one
\* re-archived less than 7 days ago, is never deleted.
C6_DeletedOnlyWhenExpired ==
    [][\A s \in StoreIds :
          (s \in DOMAIN stores /\ s \notin DOMAIN stores')
          => /\ stores[s].is_archived /\ stores[s].archived_at # NULL
             /\ now - stores[s].archived_at >= PurgeWindowSeconds * Resolution]_vars

(***************************************************************************)
(* Merchant requests on store-owned resources: order_detail, edit_product, *)
(* delete_product, payment_method_delete, switch_store and                 *)
(* plan_checkout_success.  Each begins with get_current_store and looks    *)
(* the named row up with store=store.                                      *)
(***************************************************************************)
Names       == {" ", "cap"}
PriceInputs == {<<"x">>, <<"2">>}
PlanInputs  == {"Pro", "gold"}

Lower_Identity(p) == p

\* str.strip() and str.lower() on the inputs above
Strip(n) == IF n = " " THEN "" ELSE n
Lower(p) == CASE p = "Pro" -> "pro" [] p = "PayPal" -> "paypal" [] OTHER -> p

\* order_detail: resolve the store, load the order with store=store, render.
OrderDetail(w, u, ov, o) ==
    /\ reqs[w] = Idle
    /\ \E r \in GetCurrentStore(stores, u, ov, SessionOf(u)) :
          /\ session' = SetSession(u, r.sid)
          /\ Finish(w, Resp("order_detail", u, ov, o, 0, r.store,
                            IF r.store = NoStore THEN "info_message"
                            ELSE IF GetObject(orders, o, r.store) THEN "rendered"
                                 ELSE "not_found"))
    /\ UNCHANGED <<now, stores, products, orders, items, methods, pk, batch, users, merchants>>

\* edit_product up to product.save().  Decimal(price_raw) accepts, of the
\* strings over Alphabet, those int() accepts.
EditProduct(w, u, ov, p, http, name, price_raw) ==
    /\ reqs[w] = Idle
    /\ \E r \in GetCurrentStore(stores, u, ov, SessionOf(u)) :
          /\ session' = SetSession(u, r.sid)
          /\ IF r.store = NoStore
             THEN Finish(w, Resp("edit_product", u, ov, p, 0, NoStore, "error_message"))
             ELSE IF stores[r.store].is_archived
                  THEN Finish(w, Resp("edit_product", u, ov, p, 0, r.store, "warning_message"))
                  ELSE IF ~GetObject(products, p, r.store)
                  THEN Finish(w, Resp("edit_product", u, ov, p, 0, r.store, "not_found"))
                  ELSE IF http = "GET"
                  THEN Finish(w, Resp("edit_product", u, ov, p, 0, r.store, "form"))
                  ELSE IF (price_raw # <<>> /\ ~ParseInt(price_raw).ok) \/ Strip(name) = ""
                  THEN Finish(w, Resp("edit_product", u, ov, p, 0, r.store, "form_error"))
                  ELSE Continue(w, Req("edit_product", "save_product", u, r.store, p,
                                       [products[p] EXCEPT
                                           !.name  = Strip(name),
                                           !.price = IF price_raw = <<>> THEN @
                                                     ELSE ParseInt(price_raw).val]))
    /\ UNCHANGED <<now, stores, products, orders, items, methods, pk, batch, users, merchants>>

\* product.save(): UPDATE of the whole row, INSERT when no row has the pk any
\* more; the store of the row must exist (foreign key).
ProductSave(w) ==
    LET r == reqs[w]
    IN  /\ r.pc = "save_product"
        /\ IF r.form.store \in DOMAIN stores
           THEN /\ products' = Put(products, r.arg, r.form)
                /\ Finish(w, Resp(r.op, r.user, <<>>, r.arg, 0, r.store, "saved"))
           ELSE /\ products' = products
                /\ Finish(w, Resp(r.op, r.user, <<>>, r.arg, 0, r.store, "server_error"))
        /\ UNCHANGED <<now, stores, orders, items, methods, pk, session, batch, users, merchants>>

\* delete_product up to product.delete().
DeleteProduct(w, u, ov, p, http) ==
    /\ reqs[w] = Idle
    /\ \E r \in GetCurrentStore(stores, u, ov, SessionOf(u)) :
          /\ session' = SetSession(u, r.sid)
          /\ IF r.store = NoStore
             THEN Finish(w, Resp("delete_product", u, ov, p, 0, NoStore, "error_message"))
             ELSE IF stores[r.store].is_archived
                  THEN Finish(w, Resp("delete_product", u, ov, p, 0, r.store, "warning_message"))
                  ELSE IF ~GetObject(products, p, r.store)
                  THEN Finish(w, Resp("delete_product", u, ov, p, 0, r.store, "not_found"))
                  ELSE IF http = "GET"
                  THEN Finish(w, Resp("delete_product", u, ov, p, 0, r.store, "confirm"))
                  ELSE Continue(w, Req("delete_product", "delete_product", u, r.store, p, NoForm))
    /\ UNCHANGED <<now, stores, products, orders, items, methods, pk, batch, users, merchants>>

\* product.delete(): ProtectedError while an order item references the
\* product, otherwise DELETE by primary key.
ProductDelete(w) ==
    LET r == reqs[w]
    IN  /\ r.pc = "delete_product"
        /\ IF ProtectedBy({r.arg}) # {}
           THEN /\ products' = products
                /\ Finish(w, Resp(r.op, r.user, <<>>, r.arg, 0, r.store, "server_error"))
           ELSE /\ products' = Drop(products, {r.arg})
                /\ Finish(w, Resp(r.op, r.user, <<>>, r.arg, 0, r.store, "deleted"))
        /\ UNCHANGED <<now, stores, orders, items, methods, pk, session, batch, users, merchants>>

\* payment_method_delete up to pm.delete().
PaymentMethodDelete(w, u, ov, m, http) ==
    /\ reqs[w] = Idle
    /\ \E r \in GetCurrentStore(stores, u, ov, SessionOf(u)) :
          /\ session' = SetSession(u, r.sid)
          /\ IF r.store = NoStore
             THEN Finish(w, Resp("payment_method_delete", u, ov, m, 0, NoStore, "error_message"))
             ELSE IF ~GetObject(methods, m, r.store)
                  THEN Finish(w, Resp("payment_method_delete", u, ov, m, 0, r.store, "not_found"))
                  ELSE IF http = "GET"
                  THEN Finish(w, Resp("payment_method_delete", u, ov, m, 0, r.store, "redirect"))
                  ELSE Continue(w, Req("payment_method_delete", "delete_method", u, r.store, m, NoForm))
    /\ UNCHANGED <<now, stores, products, orders, items, methods, pk, batch, users, merchants>>

\* pm.delete(): DELETE by primary key.
MethodDelete(w) ==
    LET r == reqs[w]
    IN  /\ r.pc = "delete_method"
        /\ methods' = Drop(methods, {r.arg})
        /\ Finish(w, Resp(r.op, r.user, <<>>, r.arg, 0, r.store, "deleted"))
        /\ UNCHANGED <<now, stores, products, orders, items, pk, session, batch, users, merchants>>

\* switch_store: Store.objects.get(pk=store_id, owner=user, is_archived=False)
SwitchStore(w, u, s) ==
    /\ reqs[w] = Idle
    /\ IF s \in OwnedActive(stores, u)
       THEN /\ session' = SetSession(u, s)
            /\ Finish(w, Resp("switch_store", u, <<>>, s, 0, s, "switched"))
       ELSE /\ session' = session
            /\ Finish(w, Resp("switch_store", u, <<>>, s, 0, NoStore, "error_message"))
    /\ UNCHANGED <<now, stores, products, orders, items, methods, pk, batch, users, merchants>>

\* plan_checkout_success up to store.save(update_fields=["plan"]).
\* A response of plan_checkout_success, with the ?plan= the request carried.
PlanResp(u, ov, s, outcome, plan) ==
    [op |-> "plan_checkout_success", user |-> u, ov |-> ov, arg |-> 0, pre |-> 0,
     store |-> s, outcome |-> outcome, days |-> 0, hours |-> 0, requested |-> plan]

PlanCheckoutSuccess(w, u, ov, plan) ==
    /\ reqs[w] = Idle
    /\ \E r \in GetCurrentStore(stores, u, ov, SessionOf(u)) :
          /\ session' = SetSession(u, r.sid)
          /\ IF r.store = NoStore
             THEN Finish(w, PlanResp(u, ov, NoStore, "info_message", plan))
             ELSE IF Lower(plan) \notin Plans
                  THEN Finish(w, PlanResp(u, ov, r.store, "warning_message", plan))
                  ELSE Continue(w, Req("plan_checkout_success", "save_plan", u, r.store, 0,
                                       [plan |-> Lower(plan), requested |-> plan]))
    /\ UNCHANGED <<now, stores, products, orders, items, methods, pk, batch, users, merchants>>

\* store.save(update_fields=["plan"]): one UPDATE; DatabaseError when the row
\* is gone.
StoreSavePlan(w) ==
    LET r == reqs[w]
    IN  /\ r.pc = "save_plan"
        /\ IF r.store \in DOMAIN stores
           THEN /\ stores' = [stores EXCEPT ![r.store].plan = r.form.plan]
                /\ Finish(w, PlanResp(r.user, <<>>, r.store, "saved", r.form.requested))
           ELSE /\ stores' = stores
                /\ Finish(w, PlanResp(r.user, <<>>, r.store, "server_error",
                                      r.form.requested))
        /\ UNCHANGED <<now, products, orders, items, methods, pk, session, batch, users, merchants>>

(***************************************************************************)
(* Spec: the merchant dashboard with two owners.  Each has the signup      *)
(* store with a product, an order and a payment method; u1 sends requests  *)
(* that name its own rows, u2's rows and rows that do not exist, while     *)
(* staff archive and restore u1's store.                                   *)
(***************************************************************************)
Init ==
    /\ now = 1
    /\ users = SignedUp
    /\ merchants = Profiles
    /\ stores = [s \in {1, 2} |->
                    StoreRow(IF s = 1 THEN "u1" ELSE "u2", FALSE, NULL, 0, "starter")]
    /\ products = [p \in {1, 2} |-> ProductRow(p, "tee", 2500)]
    /\ orders = [o \in {1, 2} |-> OrderRow(o, 0, 2500)]
    /\ \E n \in {0, 1} : items = [i \in 1..n |-> ItemRow(1, 1, "tee", 1, 2500)]
    /\ methods = [m \in {1, 2} |-> MethodRow(m, "stripe", TRUE, TRUE)]
    /\ pk = [store |-> 2, product |-> 2, order |-> 2, item |-> Cardinality(DOMAIN items),
             method |-> 2]
    /\ session = [u \in Users |-> 0]
    /\ reqs = [w \in Workers |-> Idle]
    /\ batch = NoBatch
    /\ last = NoResp

Merchants     == {"u1"}
OverridesSent == {<<>>, <<"2">>}
RowIds        == {1, 2}
FormsSent     == {[provider |-> "paypal", is_active |-> TRUE, is_default |-> TRUE]}

Next ==
    \/ LoginRequired
    \/ \E w \in Workers, u \in Merchants, ov \in OverridesSent, o \in RowIds :
          OrderDetail(w, u, ov, o)
    \/ \E w \in Workers, u \in Merchants, ov \in OverridesSent, p \in RowIds,
          http \in Https, name \in Names, price_raw \in PriceInputs :
          EditProduct(w, u, ov, p, http, name, price_raw)
    \/ \E w \in Workers, u \in Merchants, ov \in OverridesSent, p \in RowIds, http \in Https :
          DeleteProduct(w, u, ov, p, http)
    \/ \E w \in Workers, u \in Merchants, ov \in OverridesSent, m \in RowIds,
          http \in Https, f \in FormsSent :
          PaymentMethodEdit(w, u, ov, m, http, f)
    \/ \E w \in Workers, u \in Merchants, ov \in OverridesSent, m \in RowIds, http \in Https :
          PaymentMethodDelete(w, u, ov, m, http)
    \/ \E w \in Workers, u \in Merchants, s \in StoreIds : SwitchStore(w, u, s)
    \/ \E w \in Workers, u \in Merchants, ov \in OverridesSent : MerchantStoreArchive(w, u, ov)
    \/ \E w \in Workers, u \in Merchants, ov \in OverridesSent : MerchantStoreRestore(w, u, ov)
    \/ \E w \in Workers, u \in Merchants, ov \in OverridesSent, plan \in PlanInputs :
          PlanCheckoutSuccess(w, u, ov, plan)
    \/ \E w \in Workers : AdminStoreRestore(w, 1)
    \/ \E w \in Workers : ProductSave(w)
    \/ \E w \in Workers : ProductDelete(w)
    \/ \E w \in Workers : PaymentMethodSaveRow(w)
    \/ \E w \in Workers : PaymentMethodClearSiblings(w)
    \/ \E w \in Workers : MethodDelete(w)
    \/ \E w \in Workers : StoreSaveArchived(w)
    \/ \E w \in Workers : StoreSaveRestored(w)
    \/ \E w \in Workers : StoreSavePlan(w)

Spec == Init /\ [][Next]_vars

\* The stores of user u, and the rows of all tables that belong to no store
\* in the set own.
Owned(u) == {s \in DOMAIN stores : stores[s].owner = u}

RowsOutside(S, P, O, I, M, own) ==
    [store   |-> [s \in DOMAIN S \ own |-> S[s]],
     product |-> [p \in {x \in DOMAIN P : P[x].store \notin own} |-> P[p]],
     order   |-> [o \in {x \in DOMAIN O : O[x].store \notin own} |-> O[o]],
     item    |-> [i \in {x \in DOMAIN I : I[x].order \in DOMAIN O
                                          => O[I[x].order].store \notin own} |-> I[i]],
     method  |-> [m \in {x \in DOMAIN M : M[x].store \notin own} |-> M[m]]]

\* The user whose request takes the step.
Requester ==
    IF reqs' # reqs
    THEN LET w == CHOOSE v \in Workers : reqs'[v] # reqs[v]
         IN  IF reqs[w] = Idle THEN reqs'[w].user ELSE reqs[w].user
    ELSE last'.user

\* The request that is received in this step: still running, or answered.
Received ==
    IF reqs' # reqs
    THEN {reqs'[w] : w \in {v \in Workers : reqs[v] = Idle /\ reqs'[v] # Idle}}
    ELSE IF last' # last THEN {last'} ELSE {}

\* The URL of request b (sent by u) carries the id of a row of another owner.
NamesForeign(b, u) ==
    LET own == Owned(u)
    IN  \/ b.op = "order_detail" /\ b.arg \in DOMAIN orders /\ orders[b.arg].store \notin own
        \/ /\ b.op \in {"edit_product", "delete_product"}
           /\ b.arg \in DOMAIN products /\ products[b.arg].store \notin own
        \/ /\ b.op \in {"payment_method_edit", "payment_method_delete"}
           /\ b.arg \in DOMAIN methods /\ methods[b.arg].store \notin own
        \/ b.op = "switch_store" /\ b.arg \in DOMAIN stores /\ b.arg \notin own

\* The response b shows the row its URL names.
ShowsRow(b) == "outcome" \in DOMAIN b /\ b.outcome \in {"rendered", "form", "confirm", "form_error"}

RowStore(b) ==
    CASE b.op = "order_detail" -> orders[b.arg].store
      [] b.op \in {"edit_product", "delete_product"} -> products[b.arg].store
      [] b.op \in {"payment_method_edit", "payment_method_delete"} -> methods[b.arg].store
      [] OTHER -> b.store

\* C10: a step of a merchant's request (order detail, product edit or delete,
\* payment-method edit or delete, store switch, owner archive or restore, plan
\* success) changes no store, product, order, order item or payment method
\* outside the requester's own stores and no other user's session; the store
\* it works on and the row it shows are the requester's own; and a request
\* whose URL carries the id of another owner's order, product, payment method
\* or store is answered at once, with not-found or a message, all tables
\* unchanged.  (A user without a usable store gets the message redirect; a
\* foreign ?store override is skipped by get_current_store.)
C10_OwnershipScoping ==
    [][LET u == Requester
       IN  u \in Users =>
             /\ \/ db' = db
                \/ RowsOutside(stores', products', orders', items', methods', Owned(u))
                     = RowsOutside(stores, products, orders, items, methods, Owned(u))
             /\ \A v \in Users \ {u} : session'[v] = session[v]
             /\ \A b \in Received :
                   /\ b.store = NoStore \/ b.store \in Owned(u)
                   /\ (ShowsRow(b) /\ b.arg # 0) => RowStore(b) \in Owned(u)
                   /\ NamesForeign(b, u) =>
                         /\ reqs' = reqs
                         /\ b.outcome \in {"not_found", "error_message", "info_message"}
                         /\ b.store # NoStore => b.outcome = "not_found" \/ b.op = "switch_store"
                         /\ db' = db]_vars

\* u1 asked to edit u2's payment method, naming u2's store in ?store as well:
\* the request worked on u1's store and ended in not-found; u2's method is as
\* it was.
C10_Witness ==
    /\ last.op = "payment_method_edit" /\ last.user = "u1"
    /\ last.arg = 2 /\ last.ov = <<"2">>
    /\ last.store = 1 /\ last.outcome = "not_found"
    /\ 2 \in DOMAIN stores /\ stores[2].owner = "u2"
    /\ 2 \in DOMAIN methods /\ methods[2] = MethodRow(2, "stripe", TRUE, TRUE)

(***************************************************************************)
(* Store lifecycle: idempotence, the restore window and aborted requests.  *)
(***************************************************************************)
\* A worker that was idle takes up a request of handler op on store s and
\* goes on to its write.
Proceeds(op, s) ==
    \E w \in Workers : /\ reqs[w] = Idle
                       /\ reqs'[w].op = op /\ reqs'[w].store = s

\* A request of handler op is answered in this step without any write of
\* its own.
Answered(op) == reqs' = reqs /\ last' # last /\ last'.op = op

\* C11: an archive request on a store that is already archived (staff,
\* owner, or MerchantStore.archive()) leaves the row as it is, with its
\* archived_at, and reports an informational result.
C11_ArchiveIsIdempotent ==
    [][\A s \in DOMAIN stores :
          stores[s].is_archived =>
             /\ ~Proceeds("admin_store_archive", s)
             /\ ~Proceeds("merchant_store_archive", s)
             /\ (Answered("admin_store_archive") /\ last'.arg = s)
                   => (last'.outcome = "info" /\ stores' = stores)
             /\ (Answered("merchant_store_archive") /\ last'.user = stores[s].owner)
                   => (last'.outcome = "info" /\ stores' = stores)
             /\ (AllIdle /\ reqs' = reqs /\ last'.op = "MerchantStore.archive"
                 /\ last'.arg = s /\ now' = now)
                   => stores' = stores]_vars

\* C12: a staff restore request on an archived store is accepted however
\* long ago the store was archived, also after archived_at + 7 days when
\* can_restore() is false, and its save makes the row active with
\* archived_at null.
C12_StaffRestoreIgnoresDeadline ==
    [][/\ \A s \in DOMAIN stores :
             stores[s].is_archived =>
                ~(Answered("admin_store_restore") /\ last'.arg = s)
       /\ \A w \in Workers :
             (/\ reqs[w].op = "admin_store_restore" /\ reqs[w].pc = "restore"
              /\ reqs'[w] = Idle /\ reqs[w].store \in DOMAIN stores)
             => /\ last'.outcome = "restored"
                /\ ~stores'[reqs[w].store].is_archived
                /\ stores'[reqs[w].store].archived_at = NULL]_vars

\* A staff restore of store 1 is under way, about to save, while the store
\* is archived and its restore window is over (can_restore() is false).
C12_Witness ==
    \E w \in Workers :
        /\ reqs[w].op = "admin_store_restore" /\ reqs[w].pc = "restore"
        /\ reqs[w].store = 1 /\ 1 \in DOMAIN stores
        /\ stores[1].is_archived /\ ~CanRestore(stores[1], now)
        /\ now > RestoreDeadline(stores[1])
        /\ \A v \in Workers \ {w} : reqs[v] = Idle

\* C13: a merchant restore request sent by the owner of a store that is
\* archived and still inside its restore window goes on to restore that
\* store.
C13_OwnerCanRestore ==
    [][\A s \in DOMAIN stores :
          (/\ CanRestore(stores[s], now)
           /\ Answered("merchant_store_restore") /\ last'.user = stores[s].owner)
          => FALSE]_vars

\* C14: while can_restore() is true for a store (archived, and now <=
\* archived_at + 7 days) no staff purge request on it passes the checks and
\* goes on to delete.
C14_NoPurgeInsideRestoreWindow ==
    [][\A s \in DOMAIN stores :
          CanRestore(stores[s], now) => ~Proceeds("admin_store_purge", s)]_vars

\* C19: a staff purge, a staff restore or an owner's restore of a store that
\* is not archived is answered with a message at once, never going on to a
\* write, and every table is left as it was.
C19_AbortedRequestsChangeNothing ==
    [][\A s \in DOMAIN stores :
          ~stores[s].is_archived =>
             /\ ~Proceeds("admin_store_purge", s)
             /\ ~Proceeds("admin_store_restore", s)
             /\ ~Proceeds("merchant_store_restore", s)
             /\ (Answered("admin_store_purge") /\ last'.arg = s)
                   => (last'.outcome = "error_message" /\ db' = db)
             /\ (Answered("admin_store_restore") /\ last'.arg = s)
                   => (last'.outcome = "info" /\ db' = db)
             /\ (Answered("merchant_store_restore") /\ last'.store = s)
                   => (last'.outcome = "info" /\ db' = db)]_vars

\* Time has passed, store 1 is active with its product, order, order item
\* and payment method, and a staff purge of it has just been turned down.
C19_Witness ==
    /\ last.op = "admin_store_purge" /\ last.arg = 1 /\ last.outcome = "error_message"
    /\ now > 0
    /\ 1 \in DOMAIN stores /\ ~stores[1].is_archived
    /\ ProductsOf(1) # {} /\ OrdersOf(1) # {} /\ ItemsOf(1) # {} /\ MethodsOf(1) # {}

(***************************************************************************)
(* Dashboard, order list, add_product and profile.                         *)
(***************************************************************************)
\* dashboard: resolve the store, pass the archived guard, render the counts.
Dashboard(w, u, ov) ==
    /\ reqs[w] = Idle
    /\ \E r \in GetCurrentStore(stores, u, ov, SessionOf(u)) :
          /\ session' = SetSession(u, r.sid)
          /\ Finish(w, Resp("dashboard", u, ov, 0, 0, r.store,
                            IF r.store = NoStore THEN "info_message"
                            ELSE IF stores[r.store].is_archived THEN "warning_message"
                                 ELSE "rendered"))
    /\ UNCHANGED <<now, stores, products, orders, items, methods, pk, batch, users, merchants>>

\* order_list
OrderList(w, u, ov) ==
    /\ reqs[w] = Idle
    /\ \E r \in GetCurrentStore(stores, u, ov, SessionOf(u)) :
          /\ session' = SetSession(u, r.sid)
          /\ Finish(w, Resp("order_list", u, ov, 0, 0, r.store,
                            IF r.store = NoStore THEN "info_message"
                            ELSE IF stores[r.store].is_archived THEN "warning_message"
                                 ELSE "rendered"))
    /\ UNCHANGED <<now, stores, products, orders, items, methods, pk, batch, users, merchants>>

\* add_product up to product.save().  Without a price the instance keeps
\* price = None.
AddProduct(w, u, ov, http, name, price_raw) ==
    /\ reqs[w] = Idle
    /\ \E r \in GetCurrentStore(stores, u, ov, SessionOf(u)) :
          /\ session' = SetSession(u, r.sid)
          /\ IF r.store = NoStore
             THEN Finish(w, Resp("add_product", u, ov, 0, 0, NoStore, "error_message"))
             ELSE IF stores[r.store].is_archived
                  THEN Finish(w, Resp("add_product", u, ov, 0, 0, r.store, "warning_message"))
                  ELSE IF http = "GET"
                  THEN Finish(w, Resp("add_product", u, ov, 0, 0, r.store, "form"))
                  ELSE IF (price_raw # <<>> /\ ~ParseInt(price_raw).ok) \/ Strip(name) = ""
                  THEN Finish(w, Resp("add_product", u, ov, 0, 0, r.store, "form_error"))
                  ELSE Continue(w, Req("add_product", "insert_product", u, r.store, 0,
                                       ProductRow(r.store, Strip(name),
                                                  IF price_raw = <<>> THEN NULL
                                                  ELSE ParseInt(price_raw).val)))
    /\ UNCHANGED <<now, stores, products, orders, items, methods, pk, batch, users, merchants>>

\* product.save() of a new instance: INSERT.  price is NOT NULL and store is
\* a foreign key, so a missing price or a store that is gone is an
\* IntegrityError.
ProductInsert(w) ==
    LET r == reqs[w]
        k == pk.product + 1
    IN  /\ r.pc = "insert_product"
        /\ k <= MaxProductId
        /\ IF r.form.price = NULL \/ r.form.store \notin DOMAIN stores
           THEN /\ UNCHANGED <<products, pk, users, merchants>>
                /\ Finish(w, Resp(r.op, r.user, <<>>, 0, 0, r.store, "server_error"))
           ELSE /\ products' = Put(products, k, r.form)
                /\ pk' = [pk EXCEPT !.product = k]
                /\ Finish(w, Resp(r.op, r.user, <<>>, k, 0, r.store, "saved"))
        /\ UNCHANGED <<now, stores, orders, items, methods, session, batch, users, merchants>>

\* The POST data of StoreForm that the model keeps; store_name is a required
\* field (as is category), plan is one of PLAN_CHOICES.
StoreForms == {[store_name |-> n, plan |-> p] : n \in {"", "shop"}, p \in {"pro", "gold"}}

StoreFormIsValid(f) == f.store_name # "" /\ f.plan \in Plans

\* profile up to the first statement that writes: resolve the store; with
\* none, go on to MerchantStore.objects.create(); with one, bind StoreForm to
\* it and, on a valid POST, go on to form.save().
Profile(w, u, ov, http, f) ==
    /\ reqs[w] = Idle
    /\ \E r \in GetCurrentStore(stores, u, ov, SessionOf(u)) :
          /\ session' = SetSession(u, r.sid)
          /\ IF r.store = NoStore
             THEN Continue(w, Req("profile", "create_store", u, NoStore, 0,
                                  [http |-> http, data |-> f]))
             ELSE IF http = "POST" /\ StoreFormIsValid(f)
                  THEN Continue(w, Req("profile", "save_store", u, r.store, 0,
                                       [stores[r.store] EXCEPT !.plan = f.plan]))
                  ELSE Finish(w, Resp("profile", u, ov, 0, 0, r.store, "form"))
    /\ UNCHANGED <<now, stores, products, orders, items, methods, pk, batch, users, merchants>>

OwnerTaken_Never(S, u) == FALSE

\* MerchantStore.owner is a OneToOneField: the unique index refuses the
\* INSERT of a second store row of a user, archived or not.
OwnerTaken(S, u) == \E s \in DOMAIN S : S[s].owner = u

\* MerchantStore.objects.create(owner=request.user, ...) and the rest of
\* profile; the INSERT the index refuses is an IntegrityError.
ProfileCreateStore(w) ==
    LET r == reqs[w]
        k == pk.store + 1
        row == StoreRow(r.user, FALSE, NULL, now, "starter")
    IN  /\ r.pc = "create_store"
        /\ k <= MaxStoreId
        /\ IF OwnerTaken(stores, r.user)
           THEN /\ UNCHANGED <<stores, pk, session, users, merchants>>
                /\ Finish(w, Resp(r.op, r.user, <<>>, 0, 0, NoStore, "server_error"))
           ELSE /\ stores' = Put(stores, k, row)
                /\ pk' = [pk EXCEPT !.store = k]
                /\ session' = SetSession(r.user, k)
                /\ IF r.form.http = "POST" /\ StoreFormIsValid(r.form.data)
                   THEN Continue(w, Req("profile", "save_store", r.user, k, k,
                                        [row EXCEPT !.plan = r.form.data.plan]))
                   ELSE Finish(w, Resp(r.op, r.user, <<>>, k, 0, k, "form"))
        /\ UNCHANGED <<now, products, orders, items, methods, batch, users, merchants>>

\* form.save(): instance.save() writes every column of the instance the
\* handler holds (UPDATE, or INSERT when the row is gone).
StoreFormSave(w) ==
    LET r == reqs[w]
    IN  /\ r.pc = "save_store"
        /\ IF \E s \in DOMAIN stores \ {r.store} : stores[s].owner = r.user
           THEN /\ stores' = stores
                /\ Finish(w, Resp(r.op, r.user, <<>>, r.arg, 0, r.store, "server_error"))
           ELSE /\ stores' = Put(stores, r.store, r.form)
                /\ Finish(w, Resp(r.op, r.user, <<>>, r.arg, 0, r.store, "saved"))
        /\ UNCHANGED <<now, products, orders, items, methods, pk, session, batch, users, merchants>>

(***************************************************************************)
(* Reports: the daily series of the last 7, 30 or 90 days.                 *)
(***************************************************************************)
DayTicks == SecondsPerDay * Resolution

\* .astimezone(tz).date() of the instant t, as a day number; tz is the
\* offset of the current time zone in ticks.
LocalDay(t, tz) == (t + tz) \div DayTicks

\* int(request.GET.get("range", "7")), 7 on ValueError, clamped to (7, 30, 90)
ReportDays(rg) ==
    LET n == IF rg = <<>> THEN 7
             ELSE IF ParseInt(rg).ok THEN ParseInt(rg).val ELSE 7
    IN  IF n \in {7, 30, 90} THEN n ELSE 7

\* store.orders.filter(created_at__gte=since)
OrdersSince(O, s, since) == {o \in DOMAIN O : O[o].store = s /\ O[o].created_at >= since}

RECURSIVE SumTotals(_, _)
SumTotals(O, K) ==
    IF K = {} THEN 0
    ELSE LET o == CHOOSE x \in K : TRUE IN O[o].total + SumTotals(O, K \ {o})

\* bucket[key] for the local day d
OnDay(O, K, d, tz) == {o \in K : LocalDay(O[o].created_at, tz) = d}

\* The day of the i-th entry (i = 1..days) of the series, when the loop reads
\* the clock at t: (now - timedelta(days = days - i)).date()
SeriesDay(t, tz, days, i) == LocalDay(t, tz) - (days - i)

\* name = it.name or (it.product.name if it.product_id else "Product")
ItemName(it) ==
    IF it.name # "" THEN it.name
    ELSE IF it.product \in DOMAIN products THEN products[it.product].name ELSE "Product"

\* (mutant) qty counts the rows, not their quantities
RECURSIVE ItemSum_Rows(_, _, _)
ItemSum_Rows(I, K, f) ==
    IF K = {} THEN 0
    ELSE LET i == CHOOSE x \in K : TRUE
             p == IF I[i].unit_price = NULL THEN 0 ELSE I[i].unit_price
         IN  (IF f = "qty" THEN 1 ELSE p * I[i].quantity)
             + ItemSum_Rows(I, K \ {i}, f)

\* rec["qty"] ("qty") or rec["revenue"] ("revenue") summed over the items K;
\* a null unit_price counts as 0.00.
RECURSIVE ItemSum(_, _, _)
ItemSum(I, K, f) ==
    IF K = {} THEN 0
    ELSE LET i == CHOOSE x \in K : TRUE
             p == IF I[i].unit_price = NULL THEN 0 ELSE I[i].unit_price
         IN  (IF f = "qty" THEN I[i].quantity ELSE p * I[i].quantity)
             + ItemSum(I, K \ {i}, f)

TopLimit == 10

\* top_products: one record per name, sorted by (-qty, -revenue), the first
\* TopLimit of them.  sorted() is stable, so records equal in both keys stay
\* in the order of their first item in the queryset, which has no ORDER BY:
\* ord is the order the database returns the rows in (by id, "asc" or
\* "desc").
TopProducts(I, K, ord) ==
    LET names == {ItemName(I[i]) : i \in K}
        of(n)    == {i \in K : ItemName(I[i]) = n}
        first(n) == IF ord = "asc" THEN CHOOSE i \in of(n) : \A j \in of(n) : i <= j
                    ELSE 0 - (CHOOSE i \in of(n) : \A j \in of(n) : i >= j)
        recs  == {[name |-> n, qty |-> ItemSum(I, of(n), "qty"),
                   revenue |-> ItemSum(I, of(n), "revenue"), first |-> first(n)] :
                     n \in names}
        Before(x, y) ==
            \/ x.qty > y.qty
            \/ x.qty = y.qty /\ x.revenue > y.revenue
            \/ x.qty = y.qty /\ x.revenue = y.revenue /\ x.first < y.first
        rank(y) == 1 + Cardinality({x \in recs : Before(x, y)})
        len   == IF Cardinality(recs) < TopLimit THEN Cardinality(recs) ELSE TopLimit
    IN  [r \in 1..len |->
            LET x == CHOOSE y \in recs : rank(y) = r
            IN  [name |-> x.name, qty |-> x.qty, revenue |-> x.revenue]]

\* The response of reports, with the part of the template context that
\* depends on the orders.  rg is the ?range= the request carried, tz the
\* current time zone, clk[i] the value timezone.now() returned in the i-th
\* pass of the loop; labels holds the day each entry stands for.
ReportResp(u, ov, s, rg, days, K, clk, tz, top) ==
    [op |-> "reports", user |-> u, ov |-> ov, arg |-> 0, pre |-> 0, store |-> s,
     outcome |-> "rendered", days |-> 0, hours |-> 0,
     requested      |-> rg,
     tz             |-> tz,
     rendered_at    |-> clk[days],
     range_days     |-> days,
     total_orders   |-> Cardinality(K),
     total_revenue  |-> SumTotals(orders, K),
     labels         |-> [i \in 1..days |-> SeriesDay(clk[i], tz, days, i)],
     orders_series  |-> [i \in 1..days |->
                            Cardinality(OnDay(orders, K, SeriesDay(clk[i], tz, days, i), tz))],
     revenue_series |-> [i \in 1..days |->
                            SumTotals(orders, OnDay(orders, K, SeriesDay(clk[i], tz, days, i), tz))],
     product_count  |-> Cardinality({p \in DOMAIN products : products[p].store = s}),
     top_products   |-> top]

\* reports.  since is taken from timezone.now() at the start; the loop that
\* builds the series reads the clock again in every pass: the first cut
\* passes read the time of the request, the later ones a time lag ticks on.
Reports(w, u, ov, rg, lag, cut, tz) ==
    /\ reqs[w] = Idle
    /\ \E r \in GetCurrentStore(stores, u, ov, SessionOf(u)) :
          /\ session' = SetSession(u, r.sid)
          /\ IF r.store = NoStore
             THEN Finish(w, Resp("reports", u, ov, 0, 0, NoStore, "info_message"))
             ELSE IF stores[r.store].is_archived
                  THEN Finish(w, Resp("reports", u, ov, 0, 0, r.store, "warning_message"))
                  ELSE LET days == ReportDays(rg)
                           K    == OrdersSince(orders, r.store, now - days * DayTicks)
                           clk  == [i \in 1..days |-> IF i > cut THEN now + lag ELSE now]
                           J    == {i \in DOMAIN items :
                                       /\ items[i].order \in DOMAIN orders
                                       /\ orders[items[i].order].store = r.store
                                       /\ orders[items[i].order].created_at
                                             >= now - days * DayTicks}
                       IN  \E ord \in IF J = {} THEN {"asc"} ELSE {"asc", "desc"} :
                              Finish(w, ReportResp(u, ov, r.store, rg, days, K, clk, tz,
                                                   TopProducts(items, J, ord)))
    /\ UNCHANGED <<now, stores, products, orders, items, methods, pk, batch, users, merchants>>

(***************************************************************************)
(* Checkout: the payment method a checkout uses, and the gateway adapter.  *)
(***************************************************************************)
\* Position of a provider identifier in string order.
ProviderRank(p) == CASE p = "card" -> 1 [] p = "paypal" -> 2 [] p = "stripe" -> 3
                     [] OTHER -> 0

\* Meta.ordering = ["-is_default", "provider", "-updated_at"]: row a sorts
\* strictly before row b.
SortsBefore(a, b) ==
    \/ a.is_default /\ ~b.is_default
    \/ /\ a.is_default = b.is_default
       /\ \/ ProviderRank(a.provider) < ProviderRank(b.provider)
          \/ /\ a.provider = b.provider
             /\ a.updated_at > b.updated_at

\* queryset.first() over the rows K: a row no other row sorts before (rows
\* that tie come in an order the database chooses).
FirstOf(M, K) == {m \in K : \A n \in K : ~SortsBefore(M[n], M[m])}

\* (mutant) the default method is taken whether it is active or not
SelectMethod_AnyDefault(M, s) ==
    LET D == {m \in DOMAIN M : M[m].store = s /\ M[m].is_default}
        A == {m \in DOMAIN M : M[m].store = s /\ M[m].is_active}
    IN  IF D # {} THEN FirstOf(M, D) ELSE FirstOf(M, A)

\* store.payment_methods.filter(is_active=True, is_default=True).first()
\*   or store.payment_methods.filter(is_active=True).first()
\* The result is a set: empty for None, more than one row on a tie.
SelectMethod(M, s) ==
    LET D == {m \in DOMAIN M : M[m].store = s /\ M[m].is_active /\ M[m].is_default}
        A == {m \in DOMAIN M : M[m].store = s /\ M[m].is_active}
    IN  IF D # {} THEN FirstOf(M, D) ELSE FirstOf(M, A)

\* (mutant) the provider's method is taken whether it is active or not
SelectProvider_AnyState(M, s, provider) ==
    FirstOf(M, {m \in DOMAIN M : M[m].store = s /\ M[m].provider = provider})

\* store.payment_methods.filter(is_active=True, provider=provider).first()
SelectProvider(M, s, provider) ==
    FirstOf(M, {m \in DOMAIN M : M[m].store = s /\ M[m].is_active
                                 /\ M[m].provider = provider})

\* build_adapter: the adapter class the provider identifier is mapped to.
BuildAdapter(provider) ==
    CASE Lower(provider) = "stripe" -> "StripeAdapterImpl"
      [] Lower(provider) = "paypal" -> "PayPalAdapterImpl"
      [] OTHER -> "StripeAdapterImpl"

CheckoutAmountCents == 2599

\* URLs are kept as the list of their pieces, the delimiters ?, & and =
\* being pieces of their own.
\* start_checkout of the adapter class `adapter` holding success_url (<<>>
\* for None), for metadata whose order_id is order_id ("demo" when absent).
StartCheckout(adapter, success_url, order_id) ==
    LET paypal     == adapter = "PayPalAdapterImpl"
        session_id == (IF paypal THEN "pp_sess_" ELSE "cs_test_") \o order_id
        base       == IF success_url = <<>> THEN <<"/merchant/checkout/success/">>
                      ELSE success_url
    IN  [redirect_url |-> base \o <<"?", "session_id", "=", session_id,
                                    "&", "gateway", "=",
                                    IF paypal THEN "paypal" ELSE "stripe">>,
         session_id   |-> session_id]

RECURSIVE JoinPieces(_)
JoinPieces(q) == IF q = <<>> THEN "" ELSE Head(q) \o JoinPieces(Tail(q))

\* request.GET.get(key) or "" for a request to url: the query string is what
\* follows the first ?, its fields are separated by &, a field is split at
\* its first =, and of several fields with the same key the last counts.
GetParam(url, key) ==
    LET qs     == {i \in 1..Len(url) : url[i] = "?"}
        start  == IF qs = {} THEN Len(url) + 1
                  ELSE (CHOOSE i \in qs : \A j \in qs : i <= j) + 1
        fields == {i \in start..Len(url) :
                      /\ url[i] = key
                      /\ i = start \/ url[i - 1] = "&"
                      /\ i < Len(url) /\ url[i + 1] = "="}
    IN  IF fields = {} THEN ""
        ELSE LET f    == CHOOSE i \in fields : \A j \in fields : i >= j
                 amps == {i \in (f + 2)..Len(url) : url[i] = "&"}
                 stop == IF amps = {} THEN Len(url)
                         ELSE (CHOOSE i \in amps : \A j \in amps : i <= j) - 1
             IN  JoinPieces(SubSeq(url, f + 2, stop))

\* The response of a checkout that reached the gateway: the ?provider= the
\* request carried ("" for none), the method used, the adapter built for it
\* with success_url, the amount handed to start_checkout, and the redirect
\* target start_checkout returned.
CheckoutResp(op, u, ov, s, m, amount, provider, success_url) ==
    [op |-> op, user |-> u, ov |-> ov, arg |-> m, pre |-> 0, store |-> s,
     outcome |-> "gateway_redirect", days |-> 0, hours |-> 0, requested |-> provider,
     adapter |-> BuildAdapter(methods[m].provider), amount_cents |-> amount,
     redirect_url |-> StartCheckout(BuildAdapter(methods[m].provider), success_url,
                                    "demo").redirect_url]

\* checkout_start
CheckoutStart(w, u, ov) ==
    /\ reqs[w] = Idle
    /\ \E r \in GetCurrentStore(stores, u, ov, SessionOf(u)) :
          /\ session' = SetSession(u, r.sid)
          /\ IF r.store = NoStore
             THEN Finish(w, Resp("checkout_start", u, ov, 0, 0, NoStore, "error_message"))
             ELSE IF SelectMethod(methods, r.store) = {}
                  THEN Finish(w, Resp("checkout_start", u, ov, 0, 0, r.store,
                                      "no_active_method"))
                  ELSE \E m \in SelectMethod(methods, r.store) :
                          Finish(w, CheckoutResp("checkout_start", u, ov, r.store, m,
                                                 CheckoutAmountCents, "",
                                                 <<"/merchant/checkout/success/">>))
    /\ UNCHANGED <<now, stores, products, orders, items, methods, pk, batch, users, merchants>>

\* plan_checkout: the plan is checked before the store is resolved.
PlanCheckout(w, u, ov, plan_slug, provider) ==
    /\ reqs[w] = Idle
    /\ IF Lower(plan_slug) \notin Plans
       THEN /\ session' = session
            /\ Finish(w, Resp("plan_checkout", u, ov, 0, 0, NoStore, "error_message"))
       ELSE \E r \in GetCurrentStore(stores, u, ov, SessionOf(u)) :
          /\ session' = SetSession(u, r.sid)
          /\ IF r.store = NoStore
             THEN Finish(w, Resp("plan_checkout", u, ov, 0, 0, NoStore, "info_message"))
             ELSE LET pms == IF Lower(provider) # ""
                             THEN SelectProvider(methods, r.store, Lower(provider))
                             ELSE SelectMethod(methods, r.store)
                  IN  IF pms = {}
                      THEN Finish(w, Resp("plan_checkout", u, ov, 0, 0, r.store,
                                          IF Lower(provider) # ""
                                          THEN "provider_not_active"
                                          ELSE "no_active_method"))
                      ELSE \E m \in pms :
                              Finish(w, CheckoutResp("plan_checkout", u, ov, r.store, m,
                                                     PLAN_PRICES[Lower(plan_slug)],
                                                     Lower(provider),
                                                     <<"/merchant/plans/success/", "?",
                                                       "plan", "=", Lower(plan_slug)>>))
    /\ UNCHANGED <<now, stores, products, orders, items, methods, pk, batch, users, merchants>>

\* payment_settings and plan_pricing list the store's methods; reports_export
\* writes the store's orders as CSV.
ListingOps == {"payment_settings", "plan_pricing", "reports_export"}

Listing(w, op, u, ov) ==
    /\ reqs[w] = Idle
    /\ \E r \in GetCurrentStore(stores, u, ov, SessionOf(u)) :
          /\ session' = SetSession(u, r.sid)
          /\ Finish(w, Resp(op, u, ov, 0, 0, r.store,
                            IF r.store # NoStore THEN "rendered"
                            ELSE IF op = "payment_settings" THEN "error_message"
                                 ELSE "info_message"))
    /\ UNCHANGED <<now, stores, products, orders, items, methods, pk, batch, users, merchants>>

(***************************************************************************)
(* SpecDash: every merchant page, requested by u1 while staff archive and  *)
(* restore u1's store.  u1 starts with the signup store (active or         *)
(* archived) or, after a purge, without any store.                         *)
(***************************************************************************)
InitDash ==
    /\ now = 1
    /\ users = SignedUp
    /\ merchants = Profiles
    /\ \E S \in {{1, 2}, {2}}, a \in BOOLEAN :
          /\ stores = [s \in S |->
                          IF s = 1 THEN StoreRow("u1", a, IF a THEN 0 ELSE NULL, 0, "starter")
                          ELSE StoreRow("u2", FALSE, NULL, 0, "starter")]
          /\ products = [p \in S |-> ProductRow(p, "tee", 2500)]
          /\ orders = [o \in S |-> OrderRow(o, 0, 2500)]
          /\ methods = [m \in S |-> MethodRow(m, "stripe", TRUE, TRUE)]
    /\ items = <<>>
    /\ pk = [store |-> 2, product |-> 2, order |-> 2, item |-> 0, method |-> 2]
    /\ session = [u \in Users |-> 0]
    /\ reqs = [w \in Workers |-> Idle]
    /\ batch = NoBatch
    /\ last = NoResp

UsersDash == {"u1"}
FormsDash == {[provider |-> "paypal", is_active |-> TRUE, is_default |-> TRUE]}

NextDash ==
    \/ \E w \in Workers, u \in UsersDash : Dashboard(w, u, <<>>)
    \/ \E w \in Workers, u \in UsersDash : OrderList(w, u, <<>>)
    \/ \E w \in Workers, u \in UsersDash : OrderDetail(w, u, <<>>, 1)
    \/ \E w \in Workers, u \in UsersDash : Reports(w, u, <<>>, <<>>, 0, 0, 0)
    \/ \E w \in Workers, u \in UsersDash, op \in ListingOps : Listing(w, op, u, <<>>)
    \/ \E w \in Workers, u \in UsersDash, http \in Https :
          AddProduct(w, u, <<>>, http, "cap", <<"2">>)
    \/ \E w \in Workers, u \in UsersDash, http \in Https :
          EditProduct(w, u, <<>>, 1, http, "cap", <<"2">>)
    \/ \E w \in Workers, u \in UsersDash, http \in Https : DeleteProduct(w, u, <<>>, 1, http)
    \/ \E w \in Workers, u \in UsersDash, f \in FormsDash :
          PaymentMethodCreate(w, u, <<>>, "GET", f)
    \/ \E w \in Workers, u \in UsersDash, f \in FormsDash :
          PaymentMethodEdit(w, u, <<>>, 1, "POST", f)
    \/ \E w \in Workers, u \in UsersDash : PaymentMethodDelete(w, u, <<>>, 1, "POST")
    \/ \E w \in Workers, u \in UsersDash : CheckoutStart(w, u, <<>>)
    \/ \E w \in Workers, u \in UsersDash : PlanCheckout(w, u, <<>>, "Pro", "")
    \/ \E w \in Workers, u \in UsersDash : PlanCheckoutSuccess(w, u, <<>>, "gold")
    \/ \E w \in Workers, u \in UsersDash : MerchantStoreArchive(w, u, <<>>)
    \/ \E w \in Workers, u \in UsersDash : MerchantStoreRestore(w, u, <<>>)
    \/ \E w \in Workers, u \in UsersDash, http \in Https :
          Profile(w, u, <<>>, http, [store_name |-> "shop", plan |-> "pro"])
    \/ \E w \in Workers : AdminStoreArchive(w, 1)
    \/ \E w \in Workers : AdminStoreRestore(w, 1)
    \/ \E w \in Workers : ProductInsert(w)
    \/ \E w \in Workers : ProductSave(w)
    \/ \E w \in Workers : ProductDelete(w)
    \/ \E w \in Workers : PaymentMethodSaveRow(w)
    \/ \E w \in Workers : PaymentMethodClearSiblings(w)
    \/ \E w \in Workers : MethodDelete(w)
    \/ \E w \in Workers : StoreSaveArchived(w)
    \/ \E w \in Workers : StoreSaveRestored(w)
    \/ \E w \in Workers : ProfileCreateStore(w)
    \/ \E w \in Workers : StoreFormSave(w)

SpecDash == InitDash /\ [][NextDash]_vars

(***************************************************************************)
(* The archived guard and the onboarding outcome.                          *)
(***************************************************************************)
GuardedOps == {"dashboard", "reports", "order_list",
               "add_product", "edit_product", "delete_product"}
ProductOps == {"add_product", "edit_product", "delete_product"}

\* C15: a dashboard, reports, order-list or product create/edit/delete
\* request of a user whose store is archived is answered at once with a
\* message redirect, all tables unchanged; and no step of a product
\* create/edit/delete request creates, changes or deletes a product of a
\* store that is archived when the step is taken.
C15_NoOperationOnArchivedStore ==
    [][/\ \A b \in Received :
             (/\ b.op \in GuardedOps
              /\ Owned(b.user) # {}
              /\ \A s \in Owned(b.user) : stores[s].is_archived)
             => /\ reqs' = reqs
                /\ b.outcome \in {"info_message", "error_message", "warning_message"}
                /\ db' = db
       /\ \A w \in Workers :
             (/\ reqs[w].op \in ProductOps
              /\ reqs'[w] # reqs[w]
              /\ products' # products
              /\ reqs[w].store \in DOMAIN stores)
             => ~stores[reqs[w].store].is_archived]_vars

\* C18: when get_current_store yields none for a signed-in user (no store,
\* or every store of theirs archived), a merchant handler other than profile
\* answers at once with a message redirect and changes no table; profile
\* goes on to create a fresh store of that user and binds it to the session;
\* no such request ends in an unhandled exception.
C18_NoStoreMeansOnboarding ==
    [][/\ \A b \in Received :
             (/\ b.user \in Users
              /\ b.op # "profile"
              /\ \A s \in Owned(b.user) : stores[s].is_archived)
             => /\ reqs' = reqs
                /\ b.outcome \in {"info_message", "error_message"}
                /\ db' = db
       /\ \A w \in Workers :
             (reqs[w].pc = "create_store" /\ reqs'[w] # reqs[w])
             => /\ \E k \in DOMAIN stores' \ DOMAIN stores :
                      /\ stores'[k].owner = reqs[w].user
                      /\ ~stores'[k].is_archived
                      /\ session'[reqs[w].user] = k
                /\ reqs'[w] = Idle => last'.outcome # "server_error"]_vars

(***************************************************************************)
(* Checkout over every payment-method table of store 1: SpecCheckout.      *)
(***************************************************************************)
\* Rows a store's method table can hold: any provider, active or not,
\* default or not (an inactive default is what payment_method_edit leaves
\* when it clears is_active; several defaults are what two concurrent
\* saves leave).
CheckoutRows(s) ==
    {[MethodRow(s, p, a, d) EXCEPT !.updated_at = t] :
        p \in {"paypal", "stripe"}, a \in BOOLEAN, d \in BOOLEAN, t \in {0, 1}}

InitCheckout ==
    /\ now = 2
    /\ users = SignedUp
    /\ merchants = Profiles
    /\ stores = <<StoreRow("u1", FALSE, NULL, 0, "starter"),
                  StoreRow("u2", FALSE, NULL, 0, "starter")>>
    /\ products = <<>>
    /\ orders = <<>>
    /\ items = <<>>
    /\ \E r1 \in CheckoutRows(1) \cup CheckoutRows(2), r2 \in CheckoutRows(1) :
          methods = <<r1, r2, [MethodRow(2, "paypal", TRUE, TRUE) EXCEPT !.updated_at = 2]>>
    /\ pk = [store |-> 2, product |-> 0, order |-> 0, item |-> 0, method |-> 3]
    /\ session = [u \in Users |-> 0]
    /\ reqs = [w \in Workers |-> Idle]
    /\ batch = NoBatch
    /\ last = NoResp

NextCheckout ==
    \/ \E w \in Workers : CheckoutStart(w, "u1", <<>>)
    \/ \E w \in Workers, plan_slug \in {"Pro", "gold"}, provider \in {"", "PayPal", "card"} :
          PlanCheckout(w, "u1", <<>>, plan_slug, provider)

SpecCheckout == InitCheckout /\ [][NextCheckout]_vars

ActiveOf(s) == {m \in DOMAIN methods : methods[m].store = s /\ methods[m].is_active}

\* C16: a checkout_start, or a plan_checkout without ?provider=, of a store
\* that has an active method goes to the gateway with a method of that very
\* store which is active, which is a default one when the store has an
\* active default, and before which no other active method of the store
\* sorts in Meta.ordering; an inactive method, default or not, and a method
\* of another store are never taken.
C16_SelectsActiveDefaultFirst ==
    [][\A op \in {"checkout_start", "plan_checkout"} :
          (/\ Answered(op)
           /\ last'.store # NoStore
           /\ last'.outcome \notin {"provider_not_active"}
           /\ "requested" \in DOMAIN last' => last'.requested = ""
           /\ ActiveOf(last'.store) # {})
          => /\ last'.outcome = "gateway_redirect"
             /\ last'.store \in Owned(last'.user)
             /\ last'.arg \in ActiveOf(last'.store)
             /\ (\E d \in ActiveOf(last'.store) : methods[d].is_default)
                   => methods[last'.arg].is_default
             /\ \A n \in ActiveOf(last'.store) :
                   ~SortsBefore(methods[n], methods[last'.arg])]_vars

\* Store 1 has an inactive default and an active method that is not
\* default; u1's checkout went to the gateway with the active one, although
\* store 2's active default sorts before it.
C16_Witness ==
    /\ last.op = "checkout_start" /\ last.outcome = "gateway_redirect"
    /\ last.store = 1 /\ last.arg = 2
    /\ methods[1].store = 1 /\ methods[1].is_default /\ ~methods[1].is_active
    /\ methods[2].is_active /\ ~methods[2].is_default

\* C17: a checkout_start or plan_checkout of a store without any active
\* method ends in the error redirect to the payment settings: no adapter is
\* built, no amount is handed to a gateway, and no table changes (without
\* ?provider= the message is "No active payment method", with it
\* "<Provider> is not active for this store").
C17_NoActiveMethodFails ==
    [][\A op \in {"checkout_start", "plan_checkout"} :
          (/\ Answered(op)
           /\ last'.store # NoStore
           /\ ActiveOf(last'.store) = {})
          => /\ last'.outcome \in {"no_active_method", "provider_not_active"}
             /\ (op = "checkout_start") => last'.outcome = "no_active_method"
             /\ "adapter" \notin DOMAIN last'
             /\ "amount_cents" \notin DOMAIN last'
             /\ db' = db
             /\ \A v \in Users \ {last'.user} : session'[v] = session[v]]_vars

\* Both methods of store 1 are inactive, one of them flagged default, and
\* u1's plan checkout ended in the no-active-method failure.
C17_Witness ==
    /\ last.op = "plan_checkout" /\ last.outcome = "no_active_method"
    /\ last.store = 1
    /\ methods[1].store = 1 /\ methods[1].is_default
    /\ ActiveOf(1) = {}

(***************************************************************************)
(* Reports over order histories around the edge of the window: SpecReports.*)
(***************************************************************************)
\* sum(orders_series)
RECURSIVE SumSeries(_)
SumSeries(q) == IF q = <<>> THEN 0 ELSE Head(q) + SumSeries(Tail(q))

\* Ages of an order at the time of the request: just placed, and one tick
\* inside, exactly at, and one tick outside each window.
OrderAges ==
    {0} \cup UNION {{d * DayTicks - 1, d * DayTicks, d * DayTicks + 1} : d \in {7, 30, 90}}

\* Request times: midnight and noon (UTC) of day 91, and the last tick
\* before the midnight that follows.
ReportTimes == {91 * DayTicks, 91 * DayTicks + DayTicks \div 2, 92 * DayTicks - 1}

\* Offsets of the current time zone: UTC, and five hours behind it.
ZoneOffsets == {0, 0 - 5 * SecondsPerHour * Resolution}

\* Values of ?range=: absent, the three windows, another number, a negative
\* one, and text.
RangeInputs == {<<>>, <<"7">>, <<"3", "0">>, <<"9", "0">>, <<"1", "4">>, <<"-", "7">>, <<"x">>}

InitReports ==
    /\ now \in ReportTimes
    /\ users = SignedUp
    /\ merchants = Profiles
    /\ stores = <<StoreRow("u1", FALSE, NULL, 0, "starter"),
                  StoreRow("u2", FALSE, NULL, 0, "starter")>>
    /\ products = <<ProductRow(1, "tee", 2500)>>
    /\ \E a1 \in OrderAges, a2 \in {0, 30 * DayTicks} :
          orders = <<OrderRow(1, now - a1, 2500), OrderRow(1, now - a2, 1000),
                     OrderRow(2, now, 2500)>>
    /\ items = <<>>
    /\ methods = <<>>
    /\ pk = [store |-> 2, product |-> 1, order |-> 3, item |-> 0, method |-> 0]
    /\ session = [u \in Users |-> 0]
    /\ reqs = [w \in Workers |-> Idle]
    /\ batch = NoBatch
    /\ last = NoResp

NextReports ==
    \E w \in Workers, rg \in RangeInputs, lag \in {0, 1}, cut \in {0, 3},
       tz \in ZoneOffsets :
          Reports(w, "u1", <<>>, rg, lag, cut, tz)

SpecReports == InitReports /\ [][NextReports]_vars

\* C20: the report of a store has one series entry per day of the window
\* (7, 30 or 90), total_orders is the number of the store's orders with
\* created_at >= now - window, and the entries of orders_series add up to
\* total_orders.
C20_SeriesSumsToTotal ==
    [][(Answered("reports") /\ last'.outcome = "rendered")
       => /\ last'.range_days \in {7, 30, 90}
          /\ Len(last'.orders_series) = last'.range_days
          /\ last'.total_orders
               = Cardinality(OrdersSince(orders, last'.store,
                                         now - last'.range_days * DayTicks))
          /\ SumSeries(last'.orders_series) = last'.total_orders]_vars

\* The window a ?range= value asks for.
WindowOf(rg) == CASE rg = <<"3", "0">> -> 30 [] rg = <<"9", "0">> -> 90 [] OTHER -> 7

\* C21: the series of a report has exactly N entries, N the ?range= value
\* when that is 7, 30 or 90 and 7 otherwise; the entries stand for N
\* consecutive calendar days, the last of them the day the page is rendered;
\* and a day on which the store has no order has the entry 0 in both series.
C21_SeriesCoversWindow ==
    [][(Answered("reports") /\ last'.outcome = "rendered")
       => LET N == WindowOf(last'.requested)
              b == last'
          IN  /\ b.range_days = N
              /\ Len(b.labels) = N /\ Len(b.orders_series) = N /\ Len(b.revenue_series) = N
              /\ b.labels[N] = LocalDay(b.rendered_at, b.tz)
              /\ \A i \in 1..(N - 1) : b.labels[i + 1] = b.labels[i] + 1
              /\ \A i \in 1..N :
                    (\A o \in DOMAIN orders :
                        orders[o].store = b.store
                           => LocalDay(orders[o].created_at, b.tz) # b.labels[i])
                    => b.orders_series[i] = 0 /\ b.revenue_series[i] = 0]_vars

(***************************************************************************)
(* Reports over order items: SpecTop.                                      *)
(***************************************************************************)
\* The snapshot names of items 1..11: eleven different ones.
TopNames == <<"a", "b", "c", "d", "e", "f", "g", "h", "i", "j", "k">>

\* Store 1 has order 1 inside the 7-day window and order 2 outside it; order
\* 3 is store 2's.  Items 1..11 belong to order 1, each under its own name;
\* item 12 belongs to any of the orders and repeats a name or has none.
InitTop ==
    /\ now = 91 * DayTicks + DayTicks \div 2
    /\ users = SignedUp
    /\ merchants = Profiles
    /\ stores = <<StoreRow("u1", FALSE, NULL, 0, "starter"),
                  StoreRow("u2", FALSE, NULL, 0, "starter")>>
    /\ products = <<ProductRow(1, "a", 300), ProductRow(1, "tee", 2500)>>
    /\ orders = <<OrderRow(1, now, 2500), OrderRow(1, now - 8 * DayTicks, 1000),
                  OrderRow(2, now, 2500)>>
    /\ \E q1 \in {1, 3}, q11 \in 1..3, q12 \in 0..1, p11 \in {NULL, 100},
          o12 \in 1..3, n12 \in {"a", "k", ""}, pr12 \in 1..2 :
          items = [i \in 1..12 |->
                     IF i = 12 THEN ItemRow(o12, pr12, n12, q12, 100)
                     ELSE ItemRow(1, 1, TopNames[i],
                                  IF i = 1 THEN q1 ELSE IF i = 11 THEN q11 ELSE 2,
                                  IF i = 11 THEN p11 ELSE IF i < 6 THEN 100 ELSE 100 * i)]
    /\ methods = <<>>
    /\ pk = [store |-> 2, product |-> 2, order |-> 3, item |-> 12, method |-> 0]
    /\ session = [u \in Users |-> 0]
    /\ reqs = [w \in Workers |-> Idle]
    /\ batch = NoBatch
    /\ last = NoResp

NextTop == \E w \in Workers : Reports(w, "u1", <<>>, <<>>, 0, 0, 0)

SpecTop == InitTop /\ [][NextTop]_vars

\* The items of store s's orders in the window of `days` days.
WindowItems(s, days) ==
    {i \in DOMAIN items : /\ items[i].order \in DOMAIN orders
                          /\ orders[items[i].order].store = s
                          /\ orders[items[i].order].created_at >= now - days * DayTicks}

\* Units sold (f = "qty") and money taken (f = "revenue") by the items K.
RECURSIVE Sold(_, _)
Sold(K, f) ==
    IF K = {} THEN 0
    ELSE LET i == CHOOSE x \in K : \A y \in K : x <= y
             line == IF f = "qty" THEN items[i].quantity
                     ELSE IF items[i].unit_price = NULL THEN 0
                          ELSE items[i].quantity * items[i].unit_price
         IN  line + Sold(K \ {i}, f)

\* C22: top_products has at most 10 entries, one per distinct item name of
\* the window's order items (the product's name where the item has none)
\* and all of them when there are no more than 10; entries are in descending
\* quantity, equal quantities in descending revenue; quantity and revenue
\* of an entry are the sums over the items of that name; a name left out
\* has a quantity no greater than any listed one.
C22_TopProductsRanking ==
    [][(Answered("reports") /\ last'.outcome = "rendered")
       => LET q     == last'.top_products
              J     == WindowItems(last'.store, last'.range_days)
              names == {ItemName(items[i]) : i \in J}
              of(n) == {i \in J : ItemName(items[i]) = n}
              qty   == [n \in names |-> Sold(of(n), "qty")]
              rev   == [n \in names |-> Sold(of(n), "revenue")]
          IN  /\ Len(q) <= 10
              /\ Len(q) = 10 \/ Len(q) = Cardinality(names)
              /\ \A r \in 1..Len(q) :
                    /\ q[r].name \in names
                    /\ q[r].qty = qty[q[r].name]
                    /\ q[r].revenue = rev[q[r].name]
              /\ \A r1 \in 1..Len(q), r2 \in 1..Len(q) :
                    r1 < r2 => /\ q[r1].name # q[r2].name
                               /\ \/ q[r1].qty > q[r2].qty
                                  \/ /\ q[r1].qty = q[r2].qty
                                     /\ q[r1].revenue >= q[r2].revenue
              /\ \A n \in names \ {q[r].name : r \in 1..Len(q)} :
                    \A r \in 1..Len(q) : qty[n] <= q[r].qty]_vars

\* Eleven names were sold in the window, "a" three times, "k" once and the
\* others twice: the report lists ten, "a" first, and leaves "k" out.
C22_Witness ==
    /\ last.op = "reports" /\ last.outcome = "rendered"
    /\ Len(last.top_products) = 10
    /\ Cardinality({ItemName(items[i]) : i \in WindowItems(1, 7)}) = 11
    /\ last.top_products[1].name = "a" /\ last.top_products[1].qty = 3
    /\ last.top_products[10].qty = 2
    /\ \A r \in 1..10 : last.top_products[r].name # "k"

(***************************************************************************)
(* Order items: the snapshot of name and unit_price, and the protected     *)
(* product.  Items are added and changed through the admin: SpecItems.     *)
(***************************************************************************)
\* (mutant) save() takes name and price from the product every time
OrderItemSnapshot_Always(it) ==
    [it EXCEPT !.name = products[it.product].name,
               !.unit_price = products[it.product].price]

\* OrderItem.save before super().save(): the snapshot defaults.
OrderItemSnapshot(it) ==
    [it EXCEPT !.name = IF @ = "" THEN products[it.product].name ELSE @,
               !.unit_price = IF @ = NULL THEN products[it.product].price ELSE @]

\* The admin adds an item for product p to order o, name and unit_price left
\* blank; the form's product choice must exist.
ItemAdd(w, o, p, qty) ==
    /\ reqs[w] = Idle
    /\ IF o \notin DOMAIN orders \/ p \notin DOMAIN products
       THEN Finish(w, Resp("order_item_add", Staff, <<>>, 0, 0, NoStore, "form_error"))
       ELSE Continue(w, Req("order_item_add", "save_item", Staff, orders[o].store, 0,
                            ItemRow(o, p, "", qty, NULL)))
    /\ UNCHANGED <<now, stores, products, orders, items, methods, pk, session, batch, users, merchants>>

\* The admin opens item i and saves the form as it is.
ItemChange(w, i) ==
    /\ reqs[w] = Idle
    /\ IF i \notin DOMAIN items
       THEN Finish(w, Resp("order_item_change", Staff, <<>>, i, 0, NoStore, "not_found"))
       ELSE Continue(w, Req("order_item_change", "save_item", Staff,
                            orders[items[i].order].store, i, items[i]))
    /\ UNCHANGED <<now, stores, products, orders, items, methods, pk, session, batch, users, merchants>>

\* OrderItem.save, first part: self.product is fetched when a default is
\* needed (DoesNotExist when the product is gone).
OrderItemSave(w) ==
    LET r == reqs[w]
        needs == r.form.name = "" \/ r.form.unit_price = NULL
    IN  /\ r.pc = "save_item"
        /\ IF needs /\ r.form.product \notin DOMAIN products
           THEN Finish(w, Resp(r.op, r.user, <<>>, r.arg, 0, r.store, "server_error"))
           ELSE Continue(w, [r EXCEPT !.pc = "write_item",
                                      !.form = OrderItemSnapshot(r.form)])
        /\ UNCHANGED <<now, stores, products, orders, items, methods, pk, session, batch, users, merchants>>

\* super().save(): INSERT of a new item, UPDATE (or INSERT) of a loaded one;
\* order and product are foreign keys.
OrderItemWrite(w) ==
    LET r == reqs[w]
        k == IF r.arg = 0 THEN pk.item + 1 ELSE r.arg
    IN  /\ r.pc = "write_item"
        /\ k <= MaxItemId
        /\ IF r.form.product \notin DOMAIN products \/ r.form.order \notin DOMAIN orders
           THEN /\ UNCHANGED <<items, pk, users, merchants>>
                /\ Finish(w, Resp(r.op, r.user, <<>>, r.arg, 0, r.store, "server_error"))
           ELSE /\ items' = Put(items, k, r.form)
                /\ pk' = [pk EXCEPT !.item = IF k > @ THEN k ELSE @]
                /\ Finish(w, Resp(r.op, r.user, <<>>, k, 0, r.store, "saved"))
        /\ UNCHANGED <<now, stores, products, orders, methods, session, batch, users, merchants>>

InitItems ==
    /\ now = 1
    /\ users = SignedUp
    /\ merchants = Profiles
    /\ stores = <<StoreRow("u1", FALSE, NULL, 0, "starter"),
                  StoreRow("u2", FALSE, NULL, 0, "starter")>>
    /\ products = <<ProductRow(1, "tee", 2500), ProductRow(1, "mug", 1200)>>
    /\ orders = <<OrderRow(1, 0, 2500)>>
    /\ \E n \in {0, 1} : /\ items = [i \in 1..n |-> ItemRow(1, 2, "gift", 1, 500)]
                         /\ pk = [store |-> 2, product |-> 2, order |-> 1, item |-> n,
                                  method |-> 0]
    /\ methods = <<>>
    /\ session = [u \in Users |-> 0]
    /\ reqs = [w \in Workers |-> Idle]
    /\ batch = NoBatch
    /\ last = NoResp

NextItems ==
    \/ \E w \in Workers, p \in 1..2 : ItemAdd(w, 1, p, 1)
    \/ \E w \in Workers, i \in 1..MaxItemId : ItemChange(w, i)
    \/ \E w \in Workers : OrderItemSave(w)
    \/ \E w \in Workers : OrderItemWrite(w)
    \/ \E w \in Workers, price_raw \in {<<>>, <<"2">>} :
          EditProduct(w, "u1", <<>>, 1, "POST", "cap", price_raw)
    \/ \E w \in Workers : ProductSave(w)
    \/ \E w \in Workers, p \in 1..2 : DeleteProduct(w, "u1", <<>>, p, "POST")
    \/ \E w \in Workers : ProductDelete(w)

SpecItems == InitItems /\ [][NextItems]_vars

\* C23: an item saved without name and unit_price gets the name and price
\* its product has when save() reads it, and is stored with them; and no
\* step (a product edit, a re-save of the item, anything else) changes name
\* or unit_price of an item that exists.
C23_SnapshotIsKept ==
    [][/\ \A i \in DOMAIN items \cap DOMAIN items' :
             /\ items'[i].name = items[i].name
             /\ items'[i].unit_price = items[i].unit_price
       /\ \A w \in Workers :
             (/\ reqs[w].pc = "save_item" /\ reqs[w].arg = 0
              /\ reqs'[w].pc = "write_item")
             => /\ reqs'[w].form.name = products[reqs[w].form.product].name
                /\ reqs'[w].form.unit_price = products[reqs[w].form.product].price
       /\ \A k \in DOMAIN items' \ DOMAIN items :
             \E w \in Workers : reqs[w].pc = "write_item" /\ items'[k] = reqs[w].form]_vars

\* An item was created from product 1 when that was the "tee" at 2500; the
\* product is now the "cap" at 2, the item has just been saved again and
\* still says "tee" at 2500.
C23_Witness ==
    /\ last.op = "order_item_change" /\ last.outcome = "saved"
    /\ last.arg \in DOMAIN items
    /\ items[last.arg].product = 1
    /\ items[last.arg].name = "tee" /\ items[last.arg].unit_price = 2500
    /\ products[1].name = "cap" /\ products[1].price = 2

\* C24: the product.delete() of a delete request for a product that an
\* order item references deletes nothing: products and order items are as
\* before; and in every state each order item's product exists.
C24_ReferencedProductIsKept ==
    [][/\ \A w \in Workers :
             (/\ reqs[w].op = "delete_product" /\ reqs[w].pc = "delete_product"
              /\ reqs'[w] # reqs[w]
              /\ \E i \in DOMAIN items : items[i].product = reqs[w].arg)
             => /\ products' = products
                /\ items' = items
                /\ last'.outcome # "deleted"
       /\ \A i \in DOMAIN items' : items'[i].product \in DOMAIN products']_vars

\* u1 asked to delete product 1, which an order item references: the
\* request failed and the product is still there.
C24_Witness ==
    /\ last.op = "delete_product" /\ last.arg = 1 /\ last.outcome = "server_error"
    /\ 1 \in DOMAIN products
    /\ \E i \in DOMAIN items : items[i].product = 1

(***************************************************************************)
(* The plan purchase from plan_checkout to plan_checkout_success: SpecPlan.*)
(***************************************************************************)
\* The browser follows the redirect the last checkout answered with, when
\* that leads to plan_checkout_success.
FollowRedirect(w) ==
    /\ last.outcome = "gateway_redirect"
    /\ Head(last.redirect_url) = "/merchant/plans/success/"
    /\ PlanCheckoutSuccess(w, last.user, <<>>, GetParam(last.redirect_url, "plan"))

InitPlan ==
    /\ now = 1
    /\ users = SignedUp
    /\ merchants = Profiles
    /\ stores = <<StoreRow("u1", FALSE, NULL, 0, "starter"),
                  StoreRow("u2", FALSE, NULL, 0, "starter")>>
    /\ products = <<>>
    /\ orders = <<>>
    /\ items = <<>>
    /\ \E p \in {"stripe", "paypal", "card"} :
          methods = <<MethodRow(1, p, TRUE, TRUE), MethodRow(2, "stripe", TRUE, TRUE)>>
    /\ pk = [store |-> 2, product |-> 0, order |-> 0, item |-> 0, method |-> 2]
    /\ session = [u \in Users |-> 0]
    /\ reqs = [w \in Workers |-> Idle]
    /\ batch = NoBatch
    /\ last = NoResp

NextPlan ==
    \/ \E w \in Workers, plan_slug \in {"starter", "Pro", "elite", "gold"} :
          PlanCheckout(w, "u1", <<>>, plan_slug, "")
    \/ \E w \in Workers : FollowRedirect(w)
    \/ \E w \in Workers, plan \in {"starter", "Pro", "elite", "gold", ""} :
          PlanCheckoutSuccess(w, "u1", <<>>, plan)
    \/ \E w \in Workers : StoreSavePlan(w)

SpecPlan == InitPlan /\ [][NextPlan]_vars

\* The tier a ?plan= value names, "" for none.
TierOf(plan) ==
    CASE plan \in {"starter", "Starter"} -> "starter"
      [] plan \in {"pro", "Pro"}         -> "pro"
      [] plan \in {"elite", "Elite"}     -> "elite"
      [] OTHER                           -> ""

\* C25: a plan_checkout_success request whose ?plan=, lower-cased, is
\* starter, pro or elite goes on to write exactly that tier into the plan
\* of the resolved store, whatever requests came before; with any other
\* value it is answered with a warning and no table changes; whenever a
\* store's plan changes, the new plan is one of the three tiers.
C25_PlanSetFromParameter ==
    [][/\ \A w \in Workers :
             (reqs[w] = Idle /\ reqs'[w].op = "plan_checkout_success")
             => /\ TierOf(reqs'[w].form.requested) # ""
                /\ reqs'[w].form.plan = TierOf(reqs'[w].form.requested)
                /\ reqs'[w].store \in Owned(reqs'[w].user)
       /\ \A w \in Workers :
             (reqs[w].pc = "save_plan" /\ reqs'[w] = Idle /\ reqs[w].store \in DOMAIN stores)
             => stores' = [stores EXCEPT ![reqs[w].store].plan = reqs[w].form.plan]
       /\ (Answered("plan_checkout_success") /\ last'.store # NoStore)
             => /\ TierOf(last'.requested) = ""
                /\ last'.outcome = "warning_message"
                /\ db' = db
       /\ \A s \in DOMAIN stores \cap DOMAIN stores' :
             stores'[s].plan # stores[s].plan
                => stores'[s].plan \in {"starter", "pro", "elite"}]_vars

\* u1 asked plan_checkout_success?plan=Pro without any checkout before it,
\* and store 1 is on the pro plan.
C25_Witness ==
    /\ last.op = "plan_checkout_success" /\ last.outcome = "saved"
    /\ last.requested = "Pro"
    /\ stores[1].plan = "pro"

\* The tier whose price a checkout handed to the gateway.
TierPaid(amount) == CHOOSE p \in DOMAIN PLAN_PRICES : PLAN_PRICES[p] = amount

\* C30: the request a browser makes when it follows the redirect target of
\* a plan_checkout for tier p reaches plan_checkout_success with ?plan= p
\* and goes on to set the store's plan to p.
C30_RedirectLeadsToPlan ==
    [][\A w \in Workers :
          (/\ last.op = "plan_checkout" /\ last.outcome = "gateway_redirect"
           /\ reqs[w] = Idle
           /\ \/ /\ reqs'[w].op = "plan_checkout_success"
                 /\ reqs'[w].form.requested = GetParam(last.redirect_url, "plan")
              \/ /\ reqs' = reqs /\ last'.op = "plan_checkout_success"
                 /\ last'.requested = GetParam(last.redirect_url, "plan"))
          => /\ reqs'[w].op = "plan_checkout_success"
             /\ reqs'[w].form.requested = TierPaid(last.amount_cents)
             /\ reqs'[w].form.plan = TierPaid(last.amount_cents)]_vars

(***************************************************************************)
(* The gateway stubs: the webhook endpoints and the adapters (SpecStubs).  *)
(***************************************************************************)
\* A request body is the list of its pieces: the JSON tokens, " " for
\* white space alone, "x" for bytes that are no JSON token and "0xFF" for a
\* byte that is not UTF-8.
JsonScalars == {"null", "true", "1", "'k'"}

\* bytes.decode("utf-8")
Decode(body) ==
    IF \E i \in 1..Len(body) : body[i] = "0xFF" THEN "UnicodeDecodeError" ELSE body

\* The JSON decoder: the position after the value that starts at piece i
\* of q, 0 when there is none.
RECURSIVE ParseValue(_, _), ParseElements(_, _), ParseMembers(_, _)
ParseValue(q, i) ==
    IF i > Len(q) THEN 0
    ELSE IF q[i] \in JsonScalars THEN i + 1
    ELSE IF q[i] = "[" THEN IF i < Len(q) /\ q[i + 1] = "]" THEN i + 2
                            ELSE ParseElements(q, i + 1)
    ELSE IF q[i] = "{" THEN IF i < Len(q) /\ q[i + 1] = "}" THEN i + 2
                            ELSE ParseMembers(q, i + 1)
    ELSE 0

ParseElements(q, i) ==
    LET j == ParseValue(q, i)
    IN  IF j = 0 \/ j > Len(q) THEN 0
        ELSE IF q[j] = "]" THEN j + 1
        ELSE IF q[j] = "," THEN ParseElements(q, j + 1)
        ELSE 0

ParseMembers(q, i) ==
    IF i + 1 > Len(q) \/ q[i] # "'k'" \/ q[i + 1] # ":" THEN 0
    ELSE LET j == ParseValue(q, i + 2)
         IN  IF j = 0 \/ j > Len(q) THEN 0
             ELSE IF q[j] = "}" THEN j + 1
             ELSE IF q[j] = "," THEN ParseMembers(q, j + 1)
             ELSE 0

\* json.loads(text): the Python value, by its type, or JSONDecodeError.
JsonLoads(text) ==
    IF ParseValue(text, 1) # Len(text) + 1 THEN "JSONDecodeError"
    ELSE CASE text[1] = "null" -> "None"
           [] text[1] = "true" -> "bool"
           [] text[1] = "1"    -> "int"
           [] text[1] = "'k'"  -> "str"
           [] text[1] = "["    -> "list"
           [] text[1] = "{"    -> "dict"

\* _json(request): the event, None for a body json.loads refuses; the
\* UnicodeDecodeError of decode() is not caught.
Json(body) ==
    IF Decode(body) = "UnicodeDecodeError" THEN "UnicodeDecodeError"
    ELSE LET event == JsonLoads(IF Decode(body) = <<>> THEN <<"{", "}">> ELSE Decode(body))
         IN  IF event = "JSONDecodeError" THEN "None" ELSE event

\* webhook_stripe and webhook_paypal: the status of the answer (500 for an
\* exception that leaves the view).
WebhookStatus(method, body) ==
    IF method # "POST" THEN 400
    ELSE IF Json(body) = "UnicodeDecodeError" THEN 500
    ELSE IF Json(body) = "None" THEN 400
    ELSE 200

Webhook(endpoint, method, body) ==
    /\ last' = [op |-> endpoint, method |-> method, body |-> body,
                status |-> WebhookStatus(method, body)]
    /\ UNCHANGED <<now, stores, products, orders, items, methods, pk, session, reqs,
                   batch, users, merchants>>

\* build_adapter(provider, credentials=..., success_url=...): the adapter
\* class, or AttributeError where credentials.get is called on a value that
\* is no dict.  MerchantPaymentMethod.credentials holds whatever JSON value
\* MerchantPaymentMethodForm was given: a dict, a list, a string, a number.
BuildAdapterWith(provider, credentials) ==
    IF Lower(provider) \in {"stripe", "paypal"} /\ credentials # "dict"
    THEN "AttributeError"
    ELSE BuildAdapter(provider)

\* build_adapter followed by start_checkout, as checkout_start and
\* plan_checkout call them.
AdapterCheckout(provider, credentials, success_url, order_id) ==
    LET adapter == BuildAdapterWith(provider, credentials)
    IN  /\ last' = [op |-> "start_checkout", provider |-> provider,
                    credentials |-> credentials, success_url |-> success_url,
                    order_id |-> order_id, adapter |-> adapter,
                    result |-> IF adapter = "AttributeError" THEN <<>>
                               ELSE StartCheckout(adapter, success_url, order_id)]
        /\ UNCHANGED <<now, stores, products, orders, items, methods, pk, session,
                       reqs, batch, users, merchants>>

Bodies ==
    {<<>>, <<" ">>, <<"x">>, <<"0xFF">>, <<"null">>, <<"true">>, <<"1">>, <<"'k'">>,
     <<"[", "]">>, <<"{", "}">>, <<"[", "1">>, <<"{", "'k'", "}">>,
     <<"[", "1", ",", "null", "]">>, <<"{", "'k'", ":", "1", "}">>,
     <<"{", "'k'", ":", "[", "]", ",", "'k'", ":", "null", "}">>, <<"{", "}", "x">>,
     <<"{", "'k'", ":", "0xFF", "}">>}

InitStubs ==
    /\ now = 1
    /\ users = SignedUp
    /\ merchants = Profiles
    /\ stores = <<StoreRow("u1", FALSE, NULL, 0, "starter")>>
    /\ products = <<>>
    /\ orders = <<>>
    /\ items = <<>>
    /\ methods = <<MethodRow(1, "stripe", TRUE, TRUE)>>
    /\ pk = [store |-> 1, product |-> 0, order |-> 0, item |-> 0, method |-> 1]
    /\ session = [u \in Users |-> 0]
    /\ reqs = [w \in Workers |-> Idle]
    /\ batch = NoBatch
    /\ last = NoResp

NextStubs ==
    \/ \E endpoint \in {"webhook_stripe", "webhook_paypal"},
          method \in {"GET", "POST"}, body \in Bodies :
          Webhook(endpoint, method, body)
    \/ \E provider \in {"stripe", "PayPal", "card", ""},
          credentials \in {"dict", "list", "str"},
          success_url \in {<<>>, <<"/merchant/plans/success/", "?", "plan", "=", "pro">>},
          order_id \in {"demo", "7"} :
          AdapterCheckout(provider, credentials, success_url, order_id)

SpecStubs == InitStubs /\ [][NextStubs]_vars

\* The body is the UTF-8 text of one JSON value; no body stands for {}.
ValidJson(body) ==
    /\ \A i \in 1..Len(body) : body[i] # "0xFF"
    /\ body = <<>> \/ ParseValue(body, 1) = Len(body) + 1

\* C26: a webhook endpoint answers 200 to a POST whose body is valid JSON
\* (an empty body counting as {}) and 400 to every other request, and
\* answering changes no table.
C26_WebhookAnswers ==
    [][(last' # last /\ last'.op \in {"webhook_stripe", "webhook_paypal"})
          => /\ last'.status = IF last'.method = "POST" /\ ValidJson(last'.body)
                               THEN 200 ELSE 400
             /\ db' = db]_vars

\* The adapter class the spec names for a provider value.
VariantFor(provider) ==
    CASE provider = "stripe" -> "StripeAdapterImpl"
      [] provider \in {"paypal", "PayPal"} -> "PayPalAdapterImpl"
      [] OTHER -> "StripeAdapterImpl"

\* C27: build_adapter never raises and returns the variant of the provider;
\* start_checkout returns a redirect_url and a session_id, and two calls
\* with the same variant, success URL and metadata return the same two
\* values.
C27_AdaptersAreDeterministicStubs ==
    [][(last' # last /\ last'.op = "start_checkout")
          => /\ last'.adapter = VariantFor(last'.provider)
             /\ DOMAIN last'.result = {"redirect_url", "session_id"}
             /\ (/\ last.op = "start_checkout"
                 /\ last.adapter = last'.adapter
                 /\ last.success_url = last'.success_url
                 /\ last.order_id = last'.order_id)
                => last'.result = last.result]_vars

(***************************************************************************)
(* Signup and the first profile visit: SpecSignup.                         *)
(***************************************************************************)
\* create_merchant_for_user, the post_save receiver of the user model, up
\* to its first write: it returns at once unless the row was created.
PostSave_Always(w, u, created) ==
    Continue(w, Req("user_save", "signal_merchant", u, NoStore, 0, [created |-> created]))

PostSave(w, u, created) ==
    IF ~created
    THEN Finish(w, Resp("user_save", u, <<>>, 0, 0, NoStore, "saved"))
    ELSE Continue(w, Req("user_save", "signal_merchant", u, NoStore, 0,
                         [created |-> created]))

\* user.save(): INSERT when the row is new, UPDATE otherwise, then post_save.
UserSave(w, u, email) ==
    /\ reqs[w] = Idle
    /\ users' = Put(users, u, UserRow(email))
    /\ users' # users
    /\ PostSave(w, u, u \notin DOMAIN users)
    /\ UNCHANGED <<now, stores, products, orders, items, methods, pk, session, batch,
                   merchants>>

\* Merchant.objects.get_or_create(user=instance, defaults={slug: merchant-<pk>, ...});
\* slug is unique.
SignalMerchant(w) ==
    LET r == reqs[w]
        slug == "merchant-" \o r.user
    IN  /\ r.pc = "signal_merchant"
        /\ IF \E m \in DOMAIN merchants : merchants[m].user = r.user
           THEN /\ merchants' = merchants
                /\ Continue(w, [r EXCEPT !.pc = "signal_store"])
           ELSE IF \E m \in DOMAIN merchants : merchants[m].slug = slug
           THEN /\ merchants' = merchants
                /\ Finish(w, Resp(r.op, r.user, <<>>, 0, 0, NoStore, "server_error"))
           ELSE /\ merchants' = Append(merchants, MerchantRow(r.user, slug))
                /\ Continue(w, [r EXCEPT !.pc = "signal_store"])
        /\ UNCHANGED <<now, stores, products, orders, items, methods, pk, session, batch,
                       users>>

\* MerchantStore.objects.create(owner=instance, ..., plan="starter"); the
\* model has no is_public field, so none is passed.
SignalStore(w) ==
    LET r == reqs[w]
        k == pk.store + 1
    IN  /\ r.pc = "signal_store"
        /\ k <= MaxStoreId
        /\ IF OwnerTaken(stores, r.user)
           THEN /\ UNCHANGED <<stores, pk>>
                /\ Finish(w, Resp(r.op, r.user, <<>>, 0, 0, NoStore, "server_error"))
           ELSE /\ stores' = Put(stores, k, StoreRow(r.user, FALSE, NULL, now, "starter"))
                /\ pk' = [pk EXCEPT !.store = k]
                /\ Finish(w, Resp(r.op, r.user, <<>>, k, 0, k, "created"))
        /\ UNCHANGED <<now, products, orders, items, methods, session, batch, users,
                       merchants>>

\* u1 signed up long ago and has no store left; u2 has not signed up yet.
InitSignup ==
    /\ now = 1
    /\ users = [u \in {"u1"} |-> UserRow("")]
    /\ merchants = <<MerchantRow("u1", "merchant-u1")>>
    /\ stores = <<>>
    /\ products = <<>>
    /\ orders = <<>>
    /\ items = <<>>
    /\ methods = <<>>
    /\ pk = [store |-> 0, product |-> 0, order |-> 0, item |-> 0, method |-> 0]
    /\ session = [u \in Users |-> 0]
    /\ reqs = [w \in Workers |-> Idle]
    /\ batch = NoBatch
    /\ last = NoResp

NextSignup ==
    \/ \E w \in Workers, u \in Users, email \in {"", "a@b.c"} : UserSave(w, u, email)
    \/ \E w \in Workers : SignalMerchant(w)
    \/ \E w \in Workers : SignalStore(w)
    \/ \E w \in Workers, http \in Https :
          Profile(w, "u1", <<>>, http, [store_name |-> "shop", plan |-> "pro"])
    \/ \E w \in Workers : ProfileCreateStore(w)
    \/ \E w \in Workers : StoreFormSave(w)

SpecSignup == InitSignup /\ [][NextSignup]_vars

StoresOf(u)   == {s \in DOMAIN stores : stores[s].owner = u}
ProfilesOf(u) == {m \in DOMAIN merchants : merchants[m].user = u}
Saving(u)     == \E w \in Workers : reqs[w].op = "user_save" /\ reqs[w].user = u

\* C28: once the save that created a user has returned, the user has
\* exactly one store and one merchant profile, the store on the starter
\* plan and not archived when it is made; a save of a user who existed
\* already adds no store and no profile, in the step that writes the user
\* row or in any later one.
C28_SignupProvisionsOneStore ==
    [][/\ \A u \in DOMAIN users' \ {"u1"} :
             ~Saving(u)' => /\ Cardinality(StoresOf(u)') = 1
                            /\ Cardinality(ProfilesOf(u)') = 1
       /\ \A u \in DOMAIN users :
             (users'[u] # users[u]) => stores' = stores /\ merchants' = merchants
       /\ \A w \in Workers :
             (reqs[w].op = "user_save" /\ reqs'[w] # reqs[w] /\ ~reqs[w].form.created)
                => stores' = stores /\ merchants' = merchants
       /\ \A w \in Workers :
             (reqs[w].op = "user_save" /\ reqs'[w] # reqs[w] /\ stores' # stores)
                => \E k \in DOMAIN stores' \ DOMAIN stores :
                      /\ stores' = Put(stores, k, StoreRow(reqs[w].user, FALSE, NULL,
                                                          now, "starter"))
                      /\ StoresOf(reqs[w].user) = {}]_vars

\* u2 signed up, got store and profile, and was saved again afterwards.
C28_Witness ==
    /\ "u2" \in DOMAIN users /\ users["u2"].email = "a@b.c"
    /\ last.op = "user_save" /\ last.user = "u2" /\ last.outcome = "saved"
    /\ Cardinality(StoresOf("u2")) = 1
    /\ Cardinality(ProfilesOf("u2")) = 1

\* C29: whatever the interleaving of the resolve and create steps of
\* concurrent profile visits, no user ever has more than one store.
C29_NoDuplicateStores == \A u \in Users : Cardinality(StoresOf(u)) <= 1

\* Two first visits of u1 both found no store and both went on to create
\* one: the second INSERT was refused, one store exists.
C29_Witness ==
    /\ last.op = "profile" /\ last.user = "u1" /\ last.outcome = "server_error"
    /\ Cardinality(StoresOf("u1")) = 1
    /\ AllIdle
====
